---- MODULE Spec2Model ----
(***************************************************************************)
(* Stock report backend: the filing-derived valuation calculator, the      *)
(* metrics resolver, the report assembler and the report service.          *)
(*                                                                         *)
(* Korean text of the source is written here in romanised form, one        *)
(* sequence element per character of the source string, so that substring  *)
(* containment is computed character by character as the code does.        *)
(***************************************************************************)
EXTENDS Integers, Sequences, FiniteSets, TLC

(***************************************************************************)
(* Python values.  Every value carries its type so that `x is None`,       *)
(* isinstance and equality are computed, never assumed.                    *)
(***************************************************************************)
None == [py |-> "NoneType"]
PyInt(i) == [py |-> "int", v |-> i]
PyStr(s) == [py |-> "str", s |-> s]

RECURSIVE Gcd(_, _)
Gcd(a, b) == IF b = 0 THEN a ELSE Gcd(b, a % b)

Abs(i) == IF i < 0 THEN -i ELSE i

\* A float, held exactly as the reduced fraction n/d with d > 0.
PyFloat(num, den) ==
    LET s == IF den < 0 THEN -1 ELSE 1
        g == Gcd(Abs(num), Abs(den))
    IN  [py |-> "float", n |-> (s * num) \div g, d |-> (s * den) \div g]

FZero == PyFloat(0, 1)
FDiv(a, b) == PyFloat(a.n * b.d, a.d * b.n)
FMul(a, b) == PyFloat(a.n * b.n, a.d * b.d)
FIsZero(a) == a.n = 0
FPos(a) == a.n > 0

\* round(x, 2): the nearest multiple of 1/100; a value exactly half way
\* goes to the even one, as for a float that holds the tie exactly.
Round2(a) ==
    LET scaled == 100 * a.n
        q == scaled \div a.d
        r == scaled - q * a.d
        up == IF 2 * r > a.d THEN 1
              ELSE IF 2 * r < a.d THEN 0
              ELSE IF q % 2 = 0 THEN 0 ELSE 1
    IN  PyFloat(q + up, 100)

\* A variant of int(x): round(x), the nearest integer, ties to even.
NearestInt(a) ==
    LET q == a.n \div a.d
        r == a.n - q * a.d
        up == IF 2 * r > a.d THEN 1
              ELSE IF 2 * r < a.d THEN 0
              ELSE IF q % 2 = 0 THEN 0 ELSE 1
    IN  PyInt(q + up)

\* int(x): truncation toward zero.
TruncInt(a) == PyInt(IF a.n >= 0 THEN a.n \div a.d ELSE -((-a.n) \div a.d))

(***************************************************************************)
(* MetricsCalculator: the synonym tables.                                  *)
(***************************************************************************)
OwnerAttributable ==
    <<"ji", "bae", "gi", "eop", "ui", " ", "so", "yu", "ju", "e", "ge", " ",
      "gwi", "sok", "doe", "neun", " ">>
NetIncomeWord == <<"dang", "gi", "sun", "i", "ik">>
LossSuffix == <<"(", "son", "sil", ")">>
OwnersEquityWord == <<"ji", "bae", "gi", "eop", " ", "so", "yu", "ji", "bun">>
EquityWord == <<"ja", "bon">>
TotalEquityWord == <<"ja", "bon", "chong", "gye">>

NET_INCOME_KEYS ==
    << OwnerAttributable \o NetIncomeWord,
       OwnerAttributable \o NetIncomeWord \o LossSuffix,
       OwnersEquityWord,
       NetIncomeWord \o LossSuffix,
       NetIncomeWord >>

EQUITY_KEYS ==
    << OwnerAttributable \o EquityWord,
       OwnersEquityWord,
       TotalEquityWord >>

EPS_KEYS ==
    << <<"gi", "bon", "ju", "dang", "sun", "i", "ik">>,
       <<"gi", "bon", "ju", "dang", "i", "ik">> >>

(***************************************************************************)
(* Series.str.contains(key, na=False): the key is a regular expression     *)
(* (pandas' default regex=True), searched anywhere in the label.  In the   *)
(* keys of this program the only metacharacters are "(" and ")", which     *)
(* delimit a group: the pattern matches the key's text without them.       *)
(***************************************************************************)
RegexText(key) == SelectSeq(key, LAMBDA c : c \notin {"(", ")"})

IsSubstring(s, t) ==
    \E i \in 0..(Len(t) - Len(s)) : SubSeq(t, i + 1, i + Len(s)) = s

StrContains(label, key) ==
    /\ label # None
    /\ IsSubstring(RegexText(key), label.s)

\* float(row['thstrm_amount']) succeeds
CanFloat(amount) == amount.py = "float"

\* df[df['account_nm'].str.contains(key, na=False)]
MatchingRows(df, key) ==
    SelectSeq(df, LAMBDA row : StrContains(row.account_nm, key))

\* A variant of _extract_value_by_keys that, within the rows a synonym
\* matches, takes the first one whose amount parses.
_extract_first_parseable(df, keys) ==
    LET from[i \in 1..(Len(keys) + 1)] ==
            IF i > Len(keys) THEN FZero
            ELSE LET row == SelectSeq(MatchingRows(df, keys[i]),
                                      LAMBDA r : CanFloat(r.thstrm_amount))
                 IN  IF row # <<>> THEN row[1].thstrm_amount
                     ELSE from[i + 1]
    IN  from[1]

\* _extract_value_by_keys: the synonyms are tried in order; a synonym whose
\* first matching row does not parse is passed over (`except: pass`).
_extract_value_by_keys(df, keys) ==
    LET from[i \in 1..(Len(keys) + 1)] ==
            IF i > Len(keys) THEN FZero
            ELSE LET row == MatchingRows(df, keys[i])
                 IN  IF row # <<>> /\ CanFloat(row[1].thstrm_amount)
                     THEN row[1].thstrm_amount
                     ELSE from[i + 1]
    IN  from[1]

\* A variant of the guard that leaves net_income out.
UnusableButNetIncome(eps, net_income, equity) ==
    FIsZero(eps) \/ FIsZero(equity)

\* `eps == 0 or net_income == 0 or equity == 0`
Unusable(eps, net_income, equity) ==
    FIsZero(eps) \/ FIsZero(net_income) \/ FIsZero(equity)

calculate_from_dataframe(df, current_price) ==
    LET net_income == _extract_value_by_keys(df, NET_INCOME_KEYS)
        equity == _extract_value_by_keys(df, EQUITY_KEYS)
        eps == _extract_value_by_keys(df, EPS_KEYS)
        price == PyFloat(current_price, 1)
    IN  IF Unusable(eps, net_income, equity)
        THEN None
        ELSE LET shares == FDiv(net_income, eps)
                 bps == IF FPos(shares) THEN FDiv(equity, shares) ELSE FZero
             IN  [py |-> "dict",
                  per |-> Round2(FDiv(price, eps)),
                  pbr |-> IF FPos(bps) THEN Round2(FDiv(price, bps)) ELSE None,
                  roe |-> Round2(FMul(FDiv(net_income, equity),
                                      PyFloat(100, 1))),
                  eps |-> TruncInt(eps),
                  bps |-> TruncInt(bps)]

(***************************************************************************)
(* Strings: a str is PyStr(<<characters>>).                                *)
(***************************************************************************)
Digit == {"0", "1", "2", "3", "4", "5", "6", "7", "8", "9"}
Whitespace == {" ", "\t", "\n"}

RECURSIVE LStrip(_)
LStrip(s) == IF s # <<>> /\ Head(s) \in Whitespace THEN LStrip(Tail(s)) ELSE s

RECURSIVE RStrip(_)
RStrip(s) ==
    IF s # <<>> /\ s[Len(s)] \in Whitespace
    THEN RStrip(SubSeq(s, 1, Len(s) - 1))
    ELSE s

\* str.strip()
Strip(s) == RStrip(LStrip(s))

\* str.isdigit()
IsDigit(s) == s # <<>> /\ \A i \in 1..Len(s) : s[i] \in Digit

DigitChar(i) == <<"0", "1", "2", "3", "4", "5", "6", "7", "8", "9">>[i + 1]

\* the decimal digits of a natural number
RECURSIVE DigitsOf(_)
DigitsOf(n) ==
    IF n < 10 THEN <<DigitChar(n)>>
    ELSE Append(DigitsOf(n \div 10), DigitChar(n % 10))

\* the "," thousands separator of format specs such as ",.0f"
RECURSIVE Grouped(_)
Grouped(digits) ==
    IF Len(digits) <= 3 THEN digits
    ELSE Grouped(SubSeq(digits, 1, Len(digits) - 3))
         \o <<",">> \o SubSeq(digits, Len(digits) - 2, Len(digits))

\* round half to even of the fraction num/den (den > 0) to an integer
RoundInt(num, den) ==
    LET q == num \div den
        r == num - q * den
    IN  IF 2 * r > den THEN q + 1
        ELSE IF 2 * r < den THEN q
        ELSE IF q % 2 = 0 THEN q ELSE q + 1

\* a number as the fraction it holds
AsFloat(v) == IF v.py = "int" THEN PyFloat(v.v, 1) ELSE v

IsNumber(v) == v.py \in {"int", "float"}

\* f"{v:,.0f}"
FormatGrouped0(v) ==
    LET f == AsFloat(v)
        i == RoundInt(f.n, f.d)
    IN  (IF f.n < 0 THEN <<"-">> ELSE <<>>) \o Grouped(DigitsOf(Abs(i)))

\* f"{v:+.2f}"
FormatSigned2(v) ==
    LET f == AsFloat(v)
        h == RoundInt(100 * Abs(f.n), f.d)
    IN  <<IF f.n < 0 THEN "-" ELSE "+">>
        \o DigitsOf(h \div 100) \o <<".">>
        \o <<DigitChar((h \div 10) % 10), DigitChar(h % 10)>>

\* str(v) of an int, or of a float holding a multiple of 1/100
StrOfNumber(v) ==
    IF v.py = "int"
    THEN (IF v.v < 0 THEN <<"-">> ELSE <<>>) \o DigitsOf(Abs(v.v))
    ELSE LET h == (100 * Abs(v.n)) \div v.d
             frac == IF h % 10 = 0 THEN <<DigitChar((h \div 10) % 10)>>
                     ELSE <<DigitChar((h \div 10) % 10), DigitChar(h % 10)>>
         IN  (IF v.n < 0 THEN <<"-">> ELSE <<>>)
             \o DigitsOf(h \div 100) \o <<".">> \o frac

NA == <<"N", "/", "A">>

_fmt_pct(v) == IF ~IsNumber(v) THEN NA ELSE FormatSigned2(v) \o <<"%">>

_fmt_won(v) == IF ~IsNumber(v) THEN NA ELSE FormatGrouped0(v) \o <<"won">>

(***************************************************************************)
(* The market-quote provider (FinanceDataReader) as this program sees it:  *)
(* every call either raises or returns a frame.                            *)
(***************************************************************************)
Exception(type, msg) == [py |-> "exception", type |-> type, msg |-> msg]

Raises(e) == [kind |-> "raise", exc |-> e]

\* dict.get(key) / row.get(key)
Get(d, key) == IF key \in DOMAIN d THEN d[key] ELSE None

Call(fn, arg) == [fn |-> fn, arg |-> arg]

Samsung == <<"sam", "seong", "jeon", "ja">>
Kakao == <<"ka", "ka", "o">>
LGEnergy == <<"L", "G", "e", "neo", "ji", "sol", "ru", "syeon">>
Hynix == <<"S", "K", "ha", "i", "nik", "seu">>

NAME_TO_CODE ==
    [name \in {Samsung, Kakao, LGEnergy} |->
        IF name = Samsung THEN <<"0", "0", "5", "9", "3", "0">>
        ELSE IF name = Kakao THEN <<"0", "3", "5", "7", "2", "0">>
        ELSE <<"3", "7", "3", "2", "2", "0">>]

\* _normalize_ticker: the code of a name or code; `listing` is what
\* fdr.StockListing("KRX") does if this call reaches it.
_normalize_ticker(ticker, fdr, listing) ==
    IF ticker = <<>> THEN [value |-> ticker, calls |-> <<>>]
    ELSE LET t == Strip(ticker)
         IN  IF t \in DOMAIN NAME_TO_CODE
             THEN [value |-> NAME_TO_CODE[t], calls |-> <<>>]
             ELSE IF IsDigit(t) /\ Len(t) = 6
             THEN [value |-> t, calls |-> <<>>]
             ELSE IF fdr
             THEN LET row == IF listing.kind = "frame"
                                /\ {"Name", "Code"} \subseteq listing.columns
                             THEN SelectSeq(listing.rows,
                                            LAMBDA r : r.Name = t)
                             ELSE <<>>
                  IN  [value |-> IF row # <<>> THEN row[1].Code ELSE t,
                       calls |-> <<Call("StockListing", "KRX")>>]
             ELSE [value |-> t, calls |-> <<>>]

\* stocks.sort_values("Marcap", ascending=False): the rows before `row`
\* are those of a larger market capitalisation; a missing one sorts last.
RankOf(rows, code) ==
    LET mine == SelectSeq(rows, LAMBDA r : r.Code = code)
        before(r) == /\ r.Marcap # None
                     /\ \/ mine[1].Marcap = None
                        \/ r.Marcap.v > mine[1].Marcap.v
    IN  IF mine = <<>> THEN None
        ELSE PyInt(Len(SelectSeq(rows, before)) + 1)

FSub(a, b) == PyFloat(a.n * b.d - b.n * a.d, a.d * b.d)

\* pct_from_n_days(n) of load_stock_snapshot
pct_from_n_days(df, n) ==
    IF df.valid <= n THEN None
    ELSE IF df.past[n] <= 0 THEN None
    ELSE FMul(FSub(PyFloat(df.last, df.past[n]), PyFloat(1, 1)),
              PyFloat(100, 1))

Returned(value, calls) == [value |-> value, exc |-> None, calls |-> calls]
Raised(exc, calls) == [value |-> None, exc |-> exc, calls |-> calls]

\* str(e) of the KeyError of stocks["Code"] and of stocks["Name"]
NoCodeColumn == <<"'", "C", "o", "d", "e", "'">>
NoNameColumn == <<"'", "N", "a", "m", "e", "'">>

\* str(e) of the ValueError of float(df["Close"].iloc[-1]), to the value
NotAFloat ==
    <<"c", "o", "u", "l", "d", " ", "n", "o", "t", " ", "c",
      "o", "n", "v", "e", "r", "t", " ", "s", "t", "r", "i",
      "n", "g", " ", "t", "o", " ", "f", "l", "o", "a", "t",
      ":", " ", "'">>

\* load_stock_snapshot: `normListing`, `listing`, `history` are what the
\* provider does at the three calls this function can make.
load_stock_snapshot(ticker, fdr, normListing, listing, history) ==
    LET norm == _normalize_ticker(ticker, fdr, normListing)
        code == norm.value
        calls1 == Append(norm.calls, Call("StockListing", "KRX"))
        calls2 == Append(calls1, Call("DataReader", code))
    IN  IF ~fdr THEN Returned(None, norm.calls)
        ELSE IF listing.kind = "raise" THEN Returned(None, calls1)
        ELSE IF "Code" \notin listing.columns
        THEN Raised(Exception("KeyError", NoCodeColumn), calls1)
        ELSE
        LET byCode == SelectSeq(listing.rows, LAMBDA r : r.Code = code)
            hasName == "Name" \in listing.columns
            row_df == IF byCode # <<>> \/ ~hasName THEN byCode
                      ELSE SelectSeq(listing.rows, LAMBDA r : r.Name = ticker)
        IN  IF byCode = <<>> /\ ~hasName
            THEN Raised(Exception("KeyError", NoNameColumn), calls1)
            ELSE IF row_df = <<>> THEN Returned(None, calls1)
            ELSE
            LET row == row_df[1]
                hasMarcap == "Marcap" \in listing.columns
                market_cap == IF hasMarcap THEN row.Marcap ELSE None
                market_cap_rank == IF hasMarcap
                                   THEN RankOf(listing.rows, code)
                                   ELSE None
                df == history
            IN  IF df.kind = "raise" THEN Returned(None, calls2)
                ELSE IF df.kind = "none" \/ df.rows = 0
                THEN Returned(None, calls2)
                ELSE IF ~({"Close", "High", "Low"} \subseteq df.columns)
                THEN Returned(None, calls2)
                ELSE IF df.valid = 0 THEN Returned(None, calls2)
                ELSE IF "close" \in DOMAIN df
                THEN Raised(Exception("ValueError",
                                      NotAFloat \o df.close \o <<"'">>),
                            calls2)
                ELSE Returned(
                    [py |-> "dict",
                     ticker |-> code,
                     name |-> IF hasName THEN row.Name ELSE code,
                     current_price |-> PyInt(df.last),
                     market_cap |-> market_cap,
                     market_cap_rank |-> market_cap_rank,
                     ret_1m |-> pct_from_n_days(df, 20),
                     ret_3m |-> pct_from_n_days(df, 60),
                     ret_1y |-> pct_from_n_days(df, 240),
                     high_52w |-> PyInt(df.high),
                     low_52w |-> PyInt(df.low),
                     from_high |-> IF df.high > 0
                                   THEN FMul(FSub(PyFloat(df.last, df.high),
                                                  PyFloat(1, 1)),
                                             PyFloat(100, 1))
                                   ELSE None],
                    calls2)

METRIC_KEYS == <<"per", "pbr", "roe", "eps", "bps">>

NoMetrics ==
    [py |-> "dict",
     per |-> None, pbr |-> None, roe |-> None, eps |-> None, bps |-> None]

\* load_stock_metrics: `summary` is what fdr.StockSummary(code) does.
load_stock_metrics(ticker, fdr, hasStockSummary, normListing, summary) ==
    LET norm == _normalize_ticker(ticker, fdr, normListing)
        calls == Append(norm.calls, Call("StockSummary", norm.value))
    IN  IF fdr /\ hasStockSummary
        THEN IF summary.kind = "dict"
             THEN Returned([py |-> "dict",
                            per |-> Get(summary.d, "PER"),
                            pbr |-> Get(summary.d, "PBR"),
                            roe |-> Get(summary.d, "ROE"),
                            eps |-> Get(summary.d, "EPS"),
                            bps |-> Get(summary.d, "BPS")], calls)
             ELSE Returned(NoMetrics, calls)
        ELSE Returned(NoMetrics, norm.calls)

(***************************************************************************)
(* DartFinancialLoader: the filing provider (DartClient) either raises,    *)
(* returns None or returns a frame of line items.                          *)
(***************************************************************************)
CurrentYear == 2026

years_to_try == <<CurrentYear, CurrentYear - 1, CurrentYear - 2>>

RECURSIVE Join(_, _)
Join(lines, sep) ==
    IF lines = <<>> THEN <<>>
    ELSE IF Len(lines) = 1 THEN lines[1]
    ELSE lines[1] \o sep \o Join(Tail(lines), sep)

CashFlowWord == <<" ", "hyeon", "geum", "heu", "reum">>

key_accounts ==
    << <<"mae", "chul", "aek">>,
       <<"yeong", "eop", "i", "ik">> \o LossSuffix,
       NetIncomeWord \o LossSuffix,
       OwnerAttributable \o NetIncomeWord \o LossSuffix,
       <<"ja", "san", "chong", "gye">>,
       <<"bu", "chae", "chong", "gye">>,
       TotalEquityWord,
       OwnerAttributable \o EquityWord,
       <<"yeong", "eop", "hwal", "dong">> \o CashFlowWord,
       <<"tu", "ja", "hwal", "dong">> \o CashFlowWord,
       <<"jae", "mu", "hwal", "dong">> \o CashFlowWord,
       EPS_KEYS[1] \o LossSuffix >>

\* _dataframe_to_text, for a frame that has the account_nm column
_dataframe_to_text(df, ticker) ==
    LET line(account) ==
            LET row == SelectSeq(df.rows,
                                 LAMBDA r : r.account_nm = PyStr(account))
            IN  IF row # <<>> /\ CanFloat(row[1].thstrm_amount)
                THEN << <<"-", " ">> \o account \o <<":", " ">>
                        \o FormatGrouped0(row[1].thstrm_amount) >>
                ELSE <<>>
        accounts[i \in 0..Len(key_accounts)] ==
            IF i = 0 THEN <<>> ELSE accounts[i - 1] \o line(key_accounts[i])
        eps_row == MatchingRows(df.rows, EPS_KEYS[1])
        eps_line ==
            IF eps_row # <<>> /\ CanFloat(eps_row[1].thstrm_amount)
            THEN << <<"-", " ", "ju", "dang", "sun", "i", "ik",
                      "(", "E", "P", "S", ")", ":", " ">>
                    \o FormatGrouped0(eps_row[1].thstrm_amount) \o <<"won">> >>
            ELSE <<>>
        header == <<"#", " ">> \o ticker
                  \o <<" ", "jae", "mu", "je", "pyo", " ",
                       "(", "D", "A", "R", "T", " ", "A", "P", "I", ")">>
    IN  PyStr(Join(<<header, <<>> >> \o accounts[Len(key_accounts)] \o eps_line,
                   <<"\n">>))

\* A variant of TryYears that asks for every year before it chooses.
TryEveryYear(corp_code, fin) ==
    LET call(i) == Call("get_financials",
                        [corp_code |-> corp_code, year |-> years_to_try[i],
                         reprt_code |-> "11011", fs_div |-> "CFS"])
        found == {i \in 1..Len(years_to_try) :
                     fin[i].kind = "frame" /\ fin[i].rows # <<>>}
    IN  [df |-> IF found = {} THEN None
                ELSE fin[CHOOSE i \in found : \A j \in found : i <= j],
         calls |-> [i \in 1..Len(years_to_try) |-> call(i)]]

\* the year loop of load_financials: the first non-empty frame
TryYears(corp_code, fin) ==
    LET step[i \in 1..(Len(years_to_try) + 1)] ==
            IF i > Len(years_to_try) THEN [df |-> None, calls |-> <<>>]
            ELSE LET tmp == fin[i]
                     call == Call("get_financials",
                                  [corp_code |-> corp_code,
                                   year |-> years_to_try[i],
                                   reprt_code |-> "11011",
                                   fs_div |-> "CFS"])
                 IN  IF tmp.kind = "frame" /\ tmp.rows # <<>>
                     THEN [df |-> tmp, calls |-> <<call>>]
                     ELSE [df |-> step[i + 1].df,
                           calls |-> <<call>> \o step[i + 1].calls]
    IN  step[1]

\* DartFinancialLoader.load_financials: `corp` is what get_corp_code does,
\* fin[i] what get_financials does for the i-th year tried.
load_financials(ticker, corp, fin) ==
    LET call0 == Call("get_corp_code", ticker)
        notFound(calls) == [text |-> None, df |-> None, calls |-> calls]
    IN  IF corp.kind = "raise" THEN notFound(<<call0>>)
        ELSE IF corp.value = None \/ corp.value = PyStr(<<>>)
        THEN notFound(<<call0>>)
        ELSE LET got == TryYears(corp.value, fin)
                 calls == <<call0>> \o got.calls
             IN  IF got.df = None THEN notFound(calls)
                 ELSE IF "account_nm" \notin got.df.columns
                 THEN notFound(calls)
                 ELSE [text |-> _dataframe_to_text(got.df, ticker),
                       df |-> got.df, calls |-> calls]

\* `if x` of a metric value, a price or None
Truthy(v) ==
    IF v = None THEN FALSE
    ELSE IF v.py = "int" THEN v.v # 0
    ELSE IF v.py = "float" THEN v.n # 0
    ELSE IF v.py = "str" THEN v.s # <<>>
    ELSE TRUE

\* A variant of has_any_value that looks at PER alone.
has_per_value(metrics) == metrics.per # None

\* A variant of has_any_value that asks for all five.
has_all_values(metrics) ==
    \A i \in 1..Len(METRIC_KEYS) : metrics[METRIC_KEYS[i]] # None

\* `any(v is not None for v in values)` over the five metrics
has_any_value(metrics) ==
    \E i \in 1..Len(METRIC_KEYS) : metrics[METRIC_KEYS[i]] # None

\* _enhance_metrics_with_dart_if_needed; `dart` is whether DART_LOADER
\* and METRICS_CALCULATOR were set at import.
_enhance_metrics_with_dart_if_needed(ticker, metrics, current_price, dart, fdr, normListing, corp, fin) ==
    LET untouched == [metrics |-> metrics, financial_text |-> None,
                      calls |-> <<>>, attempted |-> FALSE,
                      calculator_called |-> FALSE, calculated |-> None,
                      df |-> None]
    IN  IF ~(dart /\ Truthy(current_price)) THEN untouched
        ELSE IF has_any_value(metrics) THEN untouched
        ELSE
        LET norm == _normalize_ticker(ticker, fdr, normListing)
            loaded == load_financials(norm.value, corp, fin)
            calls == norm.calls \o loaded.calls
        IN  IF loaded.df = None \/ loaded.df.rows = <<>>
            THEN [untouched EXCEPT !.calls = calls, !.attempted = TRUE]
            ELSE
            LET calculated ==
                    calculate_from_dataframe(loaded.df.rows, current_price.v)
            IN  [metrics |->
                     IF calculated = None THEN metrics
                     ELSE LET upd(k) == IF calculated[k] # None
                                        THEN calculated[k]
                                        ELSE metrics[k]
                          IN  [py |-> "dict",
                               per |-> upd("per"), pbr |-> upd("pbr"),
                               roe |-> upd("roe"), eps |-> upd("eps"),
                               bps |-> upd("bps")],
                 financial_text |-> loaded.text,
                 calls |-> calls,
                 attempted |-> TRUE,
                 calculator_called |-> TRUE,
                 calculated |-> calculated,
                 df |-> loaded.df]

(***************************************************************************)
(* generate_raw_report: the assembly of the internal report.               *)
(***************************************************************************)
PyList(items) == [py |-> "list", items |-> items]
EmptyDict == [py |-> "dict"]

\* `key in d` for a dict
Has(d, key) == key \in (DOMAIN d \ {"py"})

OrNA(v) == IF v # None THEN StrOfNumber(v) ELSE NA

summary_text(name, current_price, ret_1y) ==
    name \o <<"ui", " ", "hyeon", "jae", " ", "ju", "ga", "neun", " ">>
    \o _fmt_won(current_price) \o <<"ip", "ni", "da", ".", " ">>
    \o <<"choe", "geun", " ", "1", "nyeon", " ", "su", "ik", "ryul",
         "eun", " ">>
    \o _fmt_pct(ret_1y) \o <<" ", "su", "jun", "ip", "ni", "da", ".">>

price_analysis_text(s) ==
    <<"choe", "geun", " ", "1", "gae", "wol", " ", "su", "ik", "ryul",
      "eun", " ">> \o _fmt_pct(s.ret_1m) \o <<",", " ">>
    \o <<"3", "gae", "wol", " ", "su", "ik", "ryul", "eun", " ">>
    \o _fmt_pct(s.ret_3m) \o <<",", " ">>
    \o <<"1", "nyeon", " ", "su", "ik", "ryul", "eun", " ">>
    \o _fmt_pct(s.ret_1y) \o <<"ip", "ni", "da", ".", " ">>
    \o <<"5", "2", "ju", " ", "go", "jeom", "eun", " ">>
    \o _fmt_won(s.high_52w) \o <<",", " ">>
    \o <<"5", "2", "ju", " ", "jeo", "jeom", "eun", " ">>
    \o _fmt_won(s.low_52w) \o <<"i", "myeo", ",", " ">>
    \o <<"hyeon", "jae", "ga", "neun", " ", "5", "2", "ju", " ", "go",
         "jeom", " ", "dae", "bi", " ">>
    \o _fmt_pct(s.from_high)
    \o <<" ", "wi", "chi", "e", " ", "iss", "seup", "ni", "da", ".">>

financial_analysis_text ==
    <<"jae", "mu", "je", "pyo", "(", "mae", "chul", ",", " ",
      "yeong", "eop", "i", "ik", ",", " ", "sun", "i", "ik", " ",
      "deung", ")", "e", " ", "dae", "han", " ", "sang", "se", " ",
      "bun", "seok", "eun", " ">>
    \o <<"hyang", "hu", " ", "D", "A", "R", "T", " ", "jae", "mu", "je",
         "pyo", " ", "de", "i", "teo", "reul", " ", "yeon", "dong",
         "hae", " ", "hwak", "jang", "hal", " ", "su", " ", "iss",
         "seup", "ni", "da", ".">>

valuation_text(m) ==
    <<"P", "E", "R", "|", "P", "B", "R", "|", "R", "O", "E", "wa",
      " ", "gath", "eun", " ", "bael", "ryu", "e", "i", "syeon", " ",
      "ji", "pyo", "reul", " ", "gi", "ban", "eu", "ro", " ">>
    \o <<"hyeon", "jae", " ", "ju", "ga", "ui", " ", "sang", "dae",
         "jeok", "in", " ", "su", "jun", "eul", " ", "pyeong", "ga",
         "hal", " ", "su", " ", "iss", "seup", "ni", "da", ".", " ">>
    \o <<"hyeon", "jae", " ", "P", "E", "R", "eun", " ">> \o OrNA(m.per)
    \o <<",", " ">> \o <<"P", "B", "R", "eun", " ">> \o OrNA(m.pbr)
    \o <<",", " ">> \o <<"R", "O", "E", "neun", " ">> \o OrNA(m.roe)
    \o <<" ", "ip", "ni", "da", ".">>

investment_opinion_text ==
    <<"bon", " ", "ri", "po", "teu", "neun", " ", "cham", "go",
      "yong", " ", "jeong", "bo", "i", "myeo", ",", " ", "gae",
      "byeol", " ", "tu", "ja", "ja", "ui", " ", "wi", "heom", " ",
      "seong", "hyang", "gwa", " ", "tu", "ja", " ", "gi", "gan",
      "eul", " ">>
    \o <<"ham", "kke", " ", "go", "ryeo", "hae", " ", "choe", "jong",
         " ", "pan", "dan", "eul", " ", "nae", "ri", "neun", " ",
         "geos", "i", " ", "joh", "seup", "ni", "da", ".", " ">>
    \o <<"gu", "che", "jeok", "in", " ", "mae", "su", "|", "mae", "do",
         " ", "ui", "gyeon", "gwa", " ", "mok", "pyo", " ", "ju", "ga",
         "neun", " ", "byeol", "do", "ro", " ", "je", "si", "ha", "ji",
         " ", "anh", "seup", "ni", "da", ".">>

\* datetime.now().strftime("%Y-%m-%d %H:%M:%S"), the clock read at assembly
generated_at ==
    PyStr(DigitsOf(CurrentYear)
          \o <<"-", "1", "1", "-", "0", "6", " ",
               "0", "9", ":", "0", "0", ":", "0", "0">>)

\* A variant of the sections that leaves the opinion section out.
report_sections_without_opinion(snapshot, metrics) ==
    [py |-> "dict",
     summary |-> PyStr(summary_text(snapshot.name, snapshot.current_price,
                                    snapshot.ret_1y)),
     price_analysis |-> PyStr(price_analysis_text(snapshot)),
     financial_analysis |-> PyStr(financial_analysis_text),
     valuation |-> PyStr(valuation_text(metrics))]

\* the "sections" of report_data
report_sections(snapshot, metrics) ==
    [py |-> "dict",
     summary |-> PyStr(summary_text(snapshot.name, snapshot.current_price,
                                    snapshot.ret_1y)),
     price_analysis |-> PyStr(price_analysis_text(snapshot)),
     financial_analysis |-> PyStr(financial_analysis_text),
     valuation |-> PyStr(valuation_text(metrics)),
     investment_opinion |-> PyStr(investment_opinion_text)]

\* generate_raw_report, from `per = metrics.get("per")` to its return
build_report_data(snapshot, metrics, financial_text) ==
    LET raw_data ==
            [py |-> "dict",
             basic |-> [py |-> "dict",
                        ticker |-> PyStr(snapshot.ticker),
                        name |-> PyStr(snapshot.name),
                        current_price |-> snapshot.current_price,
                        market_cap |-> snapshot.market_cap,
                        market_cap_rank |-> snapshot.market_cap_rank],
             price_trend |-> [py |-> "dict",
                              m1 |-> snapshot.ret_1m,
                              m3 |-> snapshot.ret_3m,
                              y1 |-> snapshot.ret_1y,
                              high_52w |-> snapshot.high_52w,
                              low_52w |-> snapshot.low_52w,
                              from_high |-> snapshot.from_high],
             metrics |-> [py |-> "dict",
                          per |-> metrics.per, pbr |-> metrics.pbr,
                          roe |-> metrics.roe, eps |-> metrics.eps,
                          bps |-> metrics.bps],
             technical |-> [py |-> "dict", rsi |-> None,
                            rsi_signal |-> PyStr(NA)]]
        with_text ==
            IF Truthy(financial_text)
            THEN [k \in DOMAIN raw_data \cup {"financial_text"} |->
                     IF k = "financial_text" THEN financial_text
                     ELSE raw_data[k]]
            ELSE raw_data
    IN  [py |-> "dict",
         ticker |-> PyStr(snapshot.ticker),
         name |-> PyStr(snapshot.name),
         generated_at |-> generated_at,
         report |->
             [py |-> "dict",
              title |-> PyStr(snapshot.name
                              \o <<" ", "tu", "ja", " ", "ri", "po", "teu">>),
              full_text |-> PyStr(<<>>),
              sections |-> report_sections(snapshot, metrics),
              has_financials |-> TRUE],
         raw_data |-> with_text]

(***************************************************************************)
(* ReportFormatter: the projection of the internal report onto the Kakao   *)
(* skill response.                                                         *)
(***************************************************************************)
Dict1(text) == [py |-> "dict", text |-> text]

SimpleText(text) == [py |-> "dict", simpleText |-> Dict1(PyStr(text))]

QuickReply(label, blockId) ==
    [py |-> "dict", label |-> PyStr(label), action |-> "block",
     blockId |-> blockId]

Skill(outputs, quickReplies) ==
    [py |-> "dict", version |-> "2.0",
     template |-> [py |-> "dict", outputs |-> PyList(outputs),
                   quickReplies |-> PyList(quickReplies)]]

OtherReport ==
    <<"da", "reun", " ", "jong", "mok", " ", "ri", "po", "teu">>
Help == <<"do", "um", "mal">>

build_no_data_response(ticker) ==
    Skill(<<SimpleText(<<"as", ",", " ", "a", "jik", " ", "'">> \o ticker
                       \o
                           <<"'", "e", " ", "dae", "han", " ", "ri", "po",
                             "teu", " ", "de", "i", "teo", "ga", " ",
                             "eops", "eo", "yo", " ", "(smiling-tear)",
                             " ", "da", "reun", " ", "jong", "mok", " ",
                             "ri", "po", "teu", "reul", " ", "bo", "si",
                             "gess", "eo", "yo", "?">>)>>,
          <<QuickReply(OtherReport, "S02"), QuickReply(Help, "HELP")>>)

build_error_response ==
    Skill(<<SimpleText(
        <<"ji", "geum", " ", "ri", "po", "teu", "reul", " ", "bul", "reo",
          "o", "neun", " ", "jung", "e", " ", "mun", "je", "ga", " ",
          "bal", "saeng", "haess", "eo", "yo", " ", "(crying)", "\n">>
                       \o
                           <<"jam", "si", " ", "hu", " ", "da", "si", " ",
                             "si", "do", "ha", "si", "geo", "na", ",", " ",
                             "da", "reun", " ", "jong", "mok", "eul", " ",
                             "jo", "hoe", "hae", "bol", "kka", "yo", "?">>)>>,
          <<QuickReply(<<"da", "si", " ", "si", "do">>, "S02"),
            QuickReply(OtherReport, "S02"),
            QuickReply(Help, "HELP")>>)

\* the first position at which `sep` occurs in `text`, 0 if it does not
Find(sep, text) ==
    LET at == {i \in 1..(Len(text) - Len(sep) + 1) :
                  SubSeq(text, i, i + Len(sep) - 1) = sep}
    IN  IF at = {} THEN 0 ELSE CHOOSE i \in at : \A j \in at : i <= j

SummaryBudget == 80

SentenceSeparators == << <<".", " ">>, <<"(fullstop)">>, <<"\n">> >>

\* _one_line_summary(text, max_len=80)
_one_line_summary(text) ==
    LET present == {k \in 1..Len(SentenceSeparators) :
                       Find(SentenceSeparators[k], text) > 0}
        sep == SentenceSeparators[CHOOSE k \in present :
                                      \A j \in present : k <= j]
        cut == IF present = {} THEN text
               ELSE SubSeq(text, 1, Find(sep, text) - 1)
    IN  IF text = <<>> THEN <<>>
        ELSE IF Len(cut) > SummaryBudget
        THEN SubSeq(cut, 1, SummaryBudget) \o <<".", ".", ".">>
        ELSE cut

\* str.lower() on the ASCII letters
LowerChar(c) ==
    CASE c = "A" -> "a" [] c = "B" -> "b" [] c = "C" -> "c" [] c = "D" -> "d"
      [] c = "E" -> "e" [] c = "F" -> "f" [] c = "G" -> "g" [] c = "H" -> "h"
      [] c = "I" -> "i" [] c = "J" -> "j" [] c = "K" -> "k" [] c = "L" -> "l"
      [] c = "M" -> "m" [] c = "N" -> "n" [] c = "O" -> "o" [] c = "P" -> "p"
      [] c = "Q" -> "q" [] c = "R" -> "r" [] c = "S" -> "s" [] c = "T" -> "t"
      [] c = "U" -> "u" [] c = "V" -> "v" [] c = "W" -> "w" [] c = "X" -> "x"
      [] c = "Y" -> "y" [] c = "Z" -> "z" [] OTHER -> c

Lower(text) == [i \in 1..Len(text) |-> LowerChar(text[i])]

DigitValue(c) == CHOOSE i \in 0..9 : DigitChar(i) = c

\* int(digits) of a non-empty string of decimal digits
RECURSIVE IntOf(_)
IntOf(digits) ==
    IF digits = <<>> THEN 0
    ELSE 10 * IntOf(SubSeq(digits, 1, Len(digits) - 1))
         + DigitValue(digits[Len(digits)])

\* re.findall(r"[\d,]+", text)[0]: the first maximal run of digits and
\* commas, <<>> when there is none
FirstNumberToken(text) ==
    LET isNum(i) == text[i] \in Digit \cup {","}
        starts == {i \in 1..Len(text) : isNum(i)}
        first == CHOOSE i \in starts : \A j \in starts : i <= j
        ends == {j \in first..Len(text) :
                    /\ \A k \in first..j : isNum(k)
                    /\ (j = Len(text) \/ ~isNum(j + 1))}
    IN  IF starts = {} THEN <<>>
        ELSE SubSeq(text, first, CHOOSE j \in ends : TRUE)

BUY == <<"mae", "su">> \o <<"(", "B", "U", "Y", ")">>
HOLD == <<"bo", "yu">> \o <<"(", "H", "O", "L", "D", ")">>
SELL == <<"mae", "do">> \o <<"(", "S", "E", "L", "L", ")">>

\* A variant of _extract_opinion_and_target that looks for the SELL keywords
\* first.
_extract_opinion_sell_first(text) ==
    LET lower == Lower(text)
        opinion ==
            IF \/ IsSubstring(<<"mae", "do">>, text)
               \/ IsSubstring(<<"s", "e", "l", "l">>, lower)
            THEN PyStr(SELL)
            ELSE IF \/ IsSubstring(<<"bo", "yu">>, text)
                    \/ IsSubstring(<<"h", "o", "l", "d">>, lower)
            THEN PyStr(HOLD)
            ELSE IF \/ IsSubstring(<<"mae", "su">>, text)
                    \/ IsSubstring(<<"b", "u", "y">>, lower)
            THEN PyStr(BUY)
            ELSE None
        num == SelectSeq(FirstNumberToken(text), LAMBDA c : c # ",")
        target == IF num = <<>> THEN None
                  ELSE PyStr(Grouped(DigitsOf(IntOf(num))) \o <<"won">>)
    IN  IF text = <<>> THEN [opinion |-> None, target |-> None]
        ELSE [opinion |-> opinion, target |-> target]

\* _extract_opinion_and_target(text): (opinion, target), None for neither
_extract_opinion_and_target(text) ==
    LET lower == Lower(text)
        opinion ==
            IF IsSubstring(<<"mae", "su">>, text) \/ IsSubstring(<<"b", "u", "y">>, lower)
            THEN PyStr(BUY)
            ELSE IF \/ IsSubstring(<<"bo", "yu">>, text)
                    \/ IsSubstring(<<"h", "o", "l", "d">>, lower)
            THEN PyStr(HOLD)
            ELSE IF \/ IsSubstring(<<"mae", "do">>, text)
                    \/ IsSubstring(<<"s", "e", "l", "l">>, lower)
            THEN PyStr(SELL)
            ELSE None
        num == SelectSeq(FirstNumberToken(text), LAMBDA c : c # ",")
        target == IF num = <<>> THEN None
                  ELSE PyStr(Grouped(DigitsOf(IntOf(num))) \o <<"won">>)
    IN  IF text = <<>> THEN [opinion |-> None, target |-> None]
        ELSE [opinion |-> opinion, target |-> target]

\* f"{diff:.1f}" of a fraction
Format1(f) ==
    LET t == RoundInt(10 * Abs(f.n), f.d)
    IN  (IF f.n < 0 THEN <<"-">> ELSE <<>>)
        \o DigitsOf(t \div 10) \o <<".", DigitChar(t % 10)>>

\* A variant of _calc_upside that takes the difference relative to the
\* target.
_calc_upside_of_target(current_price, target_price_str) ==
    IF ~Truthy(current_price) \/ ~Truthy(target_price_str) THEN NA
    ELSE LET digits == SelectSeq(target_price_str.s,
                                 LAMBDA c : c \notin {",", "won"})
         IN  IF ~IsDigit(digits) THEN NA
             ELSE IF current_price.v <= 0 \/ IntOf(digits) = 0 THEN NA
             ELSE LET diff == FMul(PyFloat(IntOf(digits) - current_price.v,
                                           IntOf(digits)),
                                   PyFloat(100, 1))
                  IN  (IF diff.n >= 0 THEN <<"+">> ELSE <<>>)
                      \o Format1(diff) \o <<"%">>

\* _calc_upside(current_price, target_price_str)
_calc_upside(current_price, target_price_str) ==
    IF ~Truthy(current_price) \/ ~Truthy(target_price_str) THEN NA
    ELSE LET digits == SelectSeq(target_price_str.s,
                                 LAMBDA c : c \notin {",", "won"})
         IN  IF ~IsDigit(digits) THEN NA
             ELSE IF current_price.v <= 0 THEN NA
             ELSE LET diff == FMul(PyFloat(IntOf(digits) - current_price.v,
                                           current_price.v),
                                   PyFloat(100, 1))
                  IN  (IF diff.n >= 0 THEN <<"+">> ELSE <<>>)
                      \o Format1(diff) \o <<"%">>

Item(title, description) ==
    [py |-> "dict", title |-> PyStr(title), description |-> PyStr(description)]

Card(imageTitle, imageDescription, description, itemList) ==
    [py |-> "dict",
     imageTitle |-> [py |-> "dict", title |-> PyStr(imageTitle),
                     description |-> PyStr(imageDescription)],
     title |-> PyStr(<<>>),
     description |-> PyStr(
         <<"L", "L", "M", " ", "han", " ", "mun", "jang", " ", "yo", "yak",
           ":", " ">> \o description),
     itemList |-> PyList(itemList)]

\* sections.get(key, "") or fallback
SectionOr(report, key, fallback) ==
    LET sections == Get(Get(report, "report"), "sections")
        text == IF sections = None THEN None ELSE Get(sections, key)
    IN  IF Truthy(text) THEN text.s ELSE fallback

\* the card-local fmt_pct
CardPct(v) == IF IsNumber(v) THEN FormatSigned2(v) \o <<"%">> ELSE NA

\* the summary card's fmt_won.  A market capitalisation is held in units
\* of 10^8 won (it does not fit TLC's integers in won): the thresholds
\* 10**12 and 10**8 are 10^4 and 1 of that unit.
CardWon(v) ==
    IF ~IsNumber(v) THEN NA
    ELSE IF v.v >= 10000
    THEN LET t == RoundInt(10 * v.v, 10000)
         IN  DigitsOf(t \div 10) \o <<".", DigitChar(t % 10)>> \o
             <<"jo", "won">>
    ELSE IF v.v >= 1 THEN DigitsOf(v.v) \o <<"eok", "won">>
    ELSE <<"0">> \o <<"won">>

_build_summary_card(report_data) ==
    LET basic == report_data.raw_data.basic
        mcap_rank == basic.market_cap_rank
    IN  Card(<<"tu", "ja", " ", "yo", "yak">>,
        <<"hae", "dang", " ", "jong", "mok", "e", " ", "dae", "han", " ",
          "haek", "sim", " ", "yo", "yak", "ip", "ni", "da", ".">>,
             _one_line_summary(SectionOr(report_data, "summary",

                                             <<"yo", "yak", " ", "jeong",
                                               "bo", "ga", " ", "eops",
                                               "seup", "ni", "da", ".">>)),
             <<Item(<<"yo", "yak", " ", "1">>,
                 <<"choe", "geun", " ", "1", "nyeon", " ", "su", "ik",
                   "ryul", ":", " ">>
                               \o CardPct(report_data.raw_data.price_trend.y1)),
               Item(<<"yo", "yak", " ", "2">>,
                   <<"si", "ga", "chong", "aek", ":", " ">> \o CardWon(basic.market_cap)),
               Item(<<"yo", "yak", " ", "3">>,
                    IF Truthy(mcap_rank)
                    THEN <<"si", "chong", " ", "sun", "wi", ":", " ">> \o StrOfNumber(mcap_rank) \o
                        <<"wi">>
                    ELSE
                        <<"si", "chong", " ", "sun", "wi", ":", " ", "N",
                          "/", "A">>),
               Item(<<"yo", "yak", " ", "4">>,
                   <<"sang", "se", " ", "nae", "yong", "eun", " ", "a",
                     "rae", " ", "ka", "deu", "e", "seo", " ", "hwak",
                     "in", "ha", "se", "yo", ".">>)>>)

_build_price_card(report_data) ==
    LET price_trend == report_data.raw_data.price_trend
        technical == report_data.raw_data.technical
        show(v) == IF v = None THEN <<"N", "o", "n", "e">>
                   ELSE IF v.py = "str" THEN v.s ELSE StrOfNumber(v)
    IN  Card(<<"ju", "ga", " ", "dong", "hyang", " ", "bun", "seok">>,
        <<"choe", "geun", " ", "ju", "ga", " ", "heu", "reum", "gwa", " ",
          "gi", "sul", "jeok", " ", "ji", "pyo", "reul", " ", "bun",
          "seok", "hap", "ni", "da", ".">>,
             _one_line_summary(SectionOr(report_data, "price_analysis",

                                             <<"ju", "ga", " ", "dong",
                                               "hyang", " ", "bun", "seok",
                                               " ", "jeong", "bo", "ga",
                                               " ", "eops", "seup", "ni",
                                               "da", ".">>)),
             <<Item(<<"1", "gae", "wol", " ", "su", "ik", "ryul">>, CardPct(price_trend.m1)),
               Item(<<"3", "gae", "wol", " ", "su", "ik", "ryul">>, CardPct(price_trend.m3)),
               Item(<<"1", "nyeon", " ", "su", "ik", "ryul">>, CardPct(price_trend.y1)),
               Item(
                   <<"5", "2", "ju", " ", "go", "jeom", " ", "dae", "bi">>, CardPct(price_trend.from_high)),
               Item(<<"R", "S", "I">>,
                    show(technical.rsi) \o <<" ", "(">>
                    \o show(technical.rsi_signal) \o <<")">>)>>)

_build_financial_card(report_data) ==
    Card(<<"jae", "mu", "je", "pyo">>,
        <<"gi", "eop", " ", "sil", "jeok", " ", "gi", "ban", " ", "jae",
          "mu", " ", "heu", "reum", "eul", " ", "yo", "yak", "hap", "ni",
          "da", ".">>,
         _one_line_summary(SectionOr(report_data, "financial_analysis",

                                         <<"jae", "mu", "je", "pyo", " ",
                                           "yo", "yak", " ", "jeong", "bo",
                                           "ga", " ", "eops", "seup", "ni",
                                           "da", ".">>)),
         <<Item(<<"mae", "chul">>,
             <<"tek", "seu", "teu", " ", "yo", "yak", " ", "gi", "ban",
               "eu", "ro", " ", "mae", "chul", " ", "heu", "reum", " ",
               "seol", "myeong">>),
           Item(<<"yeong", "eop", "i", "ik">>,
               <<"tek", "seu", "teu", " ", "yo", "yak", " ", "gi", "ban",
                 "eu", "ro", " ", "su", "ik", "seong", " ", "seol",
                 "myeong">>),
           Item(<<"sun", "i", "ik">>,
               <<"dang", "gi", "sun", "i", "ik", " ", "mich", " ", "chu",
                 "se", " ", "yo", "yak">>),
           Item(<<"hyeon", "geum", "heu", "reum">>,
               <<"yeong", "eop", "/", "tu", "ja", "/", "jae", "mu", " ",
                 "hyeon", "geum", "heu", "reum", " ", "yo", "yak">>),
           Item(<<"jae", "mu", " ", "an", "jeong", "seong">>,
               <<"bu", "chae", "bi", "yul", "|", "yu", "dong", "bi", "yul",
                 " ", "deung", " ", "an", "jeong", "seong", " ", "pyeong",
                 "ga">>)>>)

_build_valuation_card(report_data) ==
    LET metrics == report_data.raw_data.metrics
    IN  Card(<<"bael", "ryu", "e", "i", "syeon">>,
        <<"P", "E", "R", "|", "P", "B", "R", "|", "R", "O", "E", "ro", " ",
          "ju", "ga", " ", "jeok", "jeong", "seong", "eul", " ", "pan",
          "dan", "hap", "ni", "da", ".">>,

                 <<"P", "E", "R", "|", "P", "B", "R", "|", "R", "O", "E",
                   " ", "gi", "jun", "eu", "ro", " ", "hyeon", "jae", " ",
                   "ju", "ga", "ui", " ", "jeok", "jeong", "seong", "eul",
                   " ", "pyeong", "ga", "hap", "ni", "da", ".", " ",
                   "sang", "se", " ", "su", "chi", "neun", " ", "a", "rae",
                   " ", "hang", "mok", "eul", " ", "cham", "go", "ha",
                   "se", "yo", ".">>,
             <<Item(<<"P", "E", "R">>, OrNA(metrics.per) \o <<"bae">>),
               Item(<<"P", "B", "R">>, OrNA(metrics.pbr) \o <<"bae">>),
               Item(<<"R", "O", "E">>, OrNA(metrics.roe) \o <<"%">>),
               Item(<<"E", "P", "S", "/", "B", "P", "S">>,
                    <<"E", "P", "S", " ">> \o OrNA(metrics.eps)
                    \o <<" ", "/", " ", "B", "P", "S", " ">>
                    \o OrNA(metrics.bps)),
               Item(<<"pyeong", "ga", " ", "yo", "yak">>,
                   <<"jeok", "jeong", "|", "jeo", "pyeong", "ga", "|",
                     "go", "pyeong", "ga", " ", "yeo", "bu", "neun", " ",
                     "ri", "po", "teu", " ", "bon", "mun", " ", "cham",
                     "jo">>)>>)

_build_opinion_card(report_data) ==
    LET opinion_text == SectionOr(report_data, "investment_opinion", <<>>)
        found == _extract_opinion_and_target(opinion_text)
        current_price == report_data.raw_data.basic.current_price
        upside_str == _calc_upside(current_price, found.target)
        one_line == _one_line_summary(opinion_text)
    IN  Card(<<"tu", "ja", "ui", "gyeon">>,
        <<"choe", "jong", " ", "tu", "ja", " ", "gyeol", "ron", "gwa", " ",
          "ri", "seu", "keu", "reul", " ", "je", "gong", "hap", "ni", "da",
          ".">>,
             IF one_line # <<>> THEN one_line ELSE
                 <<"tu", "ja", "ui", "gyeon", " ", "jeong", "bo", "ga",
                   " ", "eops", "seup", "ni", "da", ".">>,
             <<Item(<<"jong", "hap", " ", "ui", "gyeon">>,
                    IF Truthy(found.opinion) THEN found.opinion.s ELSE NA),
               Item(<<"mok", "pyo", " ", "ju", "ga">>,
                    IF Truthy(found.target) THEN found.target.s ELSE NA),
               Item(<<"U", "p", "s", "i", "d", "e">>, upside_str),
               Item(<<"tu", "ja", " ", "ri", "seu", "keu">>,
                   <<"ri", "po", "teu", " ", "bon", "mun", "e", "seo", " ",
                     "je", "si", "han", " ", "ju", "yo", " ", "ri", "seu",
                     "keu", "reul", " ", "cham", "go", "ha", "se", "yo",
                     ".">>),
               Item(
                   <<"mo", "ni", "teo", "ring", " ", "po", "in", "teu">>,
                       <<"eop", "hwang", "|", "sil", "jeok", "|", "sin",
                         "sa", "eop", " ", "jin", "haeng", " ", "sang",
                         "hwang", "eul", " ", "ji", "sok", "jeok", "eu",
                         "ro", " ", "che", "keu", "ha", "se", "yo", ".">>)>>)

_build_common_quick_replies ==
    <<QuickReply(
        <<"nyu", "seu", "/", "keo", "myu", "ni", "ti", " ", "bo", "gi">>, "S06"),
      QuickReply(OtherReport, "S02"),
      QuickReply(<<"gwan", "sim", "jong", "mok", " ", "chu", "ga">>, "S10"),
      QuickReply(Help, "HELP")>>

ItemCard(card) == [py |-> "dict", itemCard |-> card]

build_success_response(report_data) ==
    Skill(<<ItemCard(_build_summary_card(report_data)),
            ItemCard(_build_price_card(report_data)),
            ItemCard(_build_financial_card(report_data)),
            ItemCard(_build_valuation_card(report_data)),
            ItemCard(_build_opinion_card(report_data))>>,
          _build_common_quick_replies)

\* the attributes of class ReportFormatter
ReportFormatterAttrs ==
    {"build_success_response", "build_no_data_response",
     "build_error_response", "_build_summary_card", "_build_price_card",
     "_build_financial_card", "_build_valuation_card", "_build_opinion_card",
     "_build_common_quick_replies", "_one_line_summary",
     "_extract_opinion_and_target", "_calc_upside"}

(***************************************************************************)
(* report_service: the outermost boundary.                                 *)
(***************************************************************************)
SkillTextLimit == 980

\* `if x` of any value
IsTrue(v) ==
    IF v.py = "dict" THEN DOMAIN v # {"py"}
    ELSE IF v.py = "list" THEN v.items # <<>>
    ELSE Truthy(v)

\* the text _simple_text_skill shows for no message
UnknownErrorText ==
    <<"ri", "po", "teu", " ", "saeng", "seong", " ", "jung", " ", "al",
      " ", "su", " ", "eops", "neun", " ", "o", "ryu", "ga", " ", "bal",
      "saeng", "haess", "seup", "ni", "da", ".">>

\* the text _ensure_kakao_format shows for an unexpected value
GenerationErrorText ==
    <<"ri", "po", "teu", " ", "saeng", "seong", " ", "jung", " ", "o",
      "ryu", "ga", " ", "bal", "saeng", "haess", "seup", "ni", "da", ".",
      "\n">> \o
    <<"jam", "si", " ", "hu", " ", "da", "si", " ", "si", "do", "hae", " ",
      "ju", "se", "yo", ".">>

\* A variant of _simple_text_skill that returns the template alone.
_simple_text_template(message) ==
    LET given == IF IsTrue(message) THEN Strip(message.s) ELSE <<>>
    IN  [py |-> "dict",
         outputs |-> PyList(<<SimpleText(given)>>)]

\* _simple_text_skill(message)
_simple_text_skill(message) ==
    LET given == IF IsTrue(message) THEN Strip(message.s) ELSE <<>>
        text == IF given # <<>> THEN given ELSE UnknownErrorText
        shown == IF Len(text) > SkillTextLimit
                 THEN SubSeq(text, 1, SkillTextLimit - 1) \o <<"(ellipsis)">>
                 ELSE text
    IN  [py |-> "dict", version |-> "2.0",
         template |-> [py |-> "dict",
                       outputs |-> PyList(<<SimpleText(shown)>>)]]

IsSkillJson(resp) ==
    resp.py = "dict" /\ Has(resp, "version") /\ Has(resp, "template")

\* A variant of _ensure_kakao_format that treats a string as any other
\* unexpected value.
_ensure_kakao_format_hiding(resp) ==
    IF IsSkillJson(resp) THEN resp
    ELSE _simple_text_skill(PyStr(GenerationErrorText))

\* _ensure_kakao_format(resp, context="")
_ensure_kakao_format(resp) ==
    IF IsSkillJson(resp) THEN resp
    ELSE IF resp.py = "str" THEN _simple_text_skill(resp)
    ELSE _simple_text_skill(PyStr(GenerationErrorText))

\* str(e) of the AttributeError
NoSuchAttribute ==
    <<"t", "y", "p", "e", " ", "o", "b", "j", "e", "c", "t",
      " ", "'", "R", "e", "p", "o", "r", "t", "F", "o", "r",
      "m", "a", "t", "t", "e", "r", "'", " ", "h", "a", "s",
      " ", "n", "o", " ", "a", "t", "t", "r", "i", "b", "u",
      "t", "e", " ", "'", "b", "u", "i", "l", "d", "_", "f",
      "r", "o", "m", "_", "r", "a", "w", "_", "r", "e", "p",
      "o", "r", "t", "'">>

\* ReportFormatter.build_from_raw_report(norm_ticker, raw_report): the class
\* has no such attribute, so the call raises AttributeError.
build_from_raw_report(norm_ticker, raw_report) ==
    IF "build_from_raw_report" \in ReportFormatterAttrs
    THEN Returned(build_success_response(raw_report), <<>>)
    ELSE Raised(Exception("AttributeError", NoSuchAttribute), <<>>)

\* A variant of OnException that shows str(e).
OnExceptionShown(e) == _simple_text_skill(PyStr(e.msg))

\* `except Exception as e:` of generate_report, around generate_raw_report
\* and around the formatter
OnException(e) == build_error_response

\* A variant of OnEmptyReport that answers as for an exception.
OnEmptyReportAsError(norm_ticker) == build_error_response

\* `if not raw_report:` of generate_report
OnEmptyReport(norm_ticker) == build_no_data_response(norm_ticker)

\* generate_report, from the return of generate_raw_report (`raw`: what it
\* returned or raised) to its own return
RespondTo(norm_ticker, raw) ==
    IF raw.exc # None THEN _ensure_kakao_format(OnException(raw.exc))
    ELSE
    LET raw_report == raw.value
    IN  IF IsSkillJson(raw_report) THEN _ensure_kakao_format(raw_report)
        ELSE IF ~IsTrue(raw_report)
        THEN _ensure_kakao_format(OnEmptyReport(norm_ticker))
        ELSE
        LET skill_json == build_from_raw_report(norm_ticker, raw_report)
            found == SectionOr(raw_report, "summary", <<>>)
            summary == IF found # <<>> THEN found
                       ELSE norm_ticker \o
                           <<"e", " ", "dae", "han", " ", "ri", "po",
                             "teu", "reul", " ", "chaj", "eul", " ", "su",
                             " ", "eops", "seup", "ni", "da", ".">>
        IN  IF skill_json.exc = None
            THEN _ensure_kakao_format(skill_json.value)
            ELSE IF skill_json.exc.type = "AttributeError"
            THEN _ensure_kakao_format(_simple_text_skill(PyStr(summary)))
            ELSE _ensure_kakao_format(OnException(skill_json.exc))

NotEntered == <<"(", "mi", "ip", "ryeok", ")">>

(***************************************************************************)
(* The inputs and the providers' answers the model draws from.             *)
(***************************************************************************)
Row(label, amount) == [account_nm |-> label, thstrm_amount |-> amount]

Unparseable == PyStr(<<"-">>)

ABCorp == <<"A", "B", " ", "C", "o", "r", "p">>

\* the line items a filing is made of
RowPool ==
    { Row(PyStr(NetIncomeWord), PyFloat(1000, 1)),
      Row(PyStr(NetIncomeWord), Unparseable),
      Row(PyStr(NetIncomeWord \o LossSuffix), PyFloat(-2000, 1)),
      Row(PyStr(OwnerAttributable \o NetIncomeWord \o LossSuffix),
          PyFloat(900, 1)),
      Row(PyStr(OwnersEquityWord), PyFloat(4000, 1)),
      Row(PyStr(TotalEquityWord), PyFloat(5000, 1)),
      Row(PyStr(TotalEquityWord), PyFloat(-300, 1)),
      Row(PyStr(EPS_KEYS[1]), PyFloat(100, 1)),
      Row(PyStr(EPS_KEYS[1]), PyFloat(0, 1)),
      Row(PyStr(EPS_KEYS[1]), Unparseable),
      Row(PyStr(EPS_KEYS[2] \o LossSuffix), PyFloat(3, 2)),
      Row(PyStr(ABCorp), PyFloat(10, 1)),
      Row(None, PyFloat(7777, 1)) }

MaxRows == 3

RECURSIVE FramesUpTo(_)
FramesUpTo(n) ==
    IF n = 0 THEN {<<>>}
    ELSE LET shorter == FramesUpTo(n - 1)
         IN  shorter \cup {Append(f, r) : f \in shorter, r \in RowPool}

KeyLists ==
    {NET_INCOME_KEYS, EQUITY_KEYS, EPS_KEYS, << <<"A">>, <<"A", "B">> >>}

PricePool == {70000, 350}

Code005930 == <<"0", "0", "5", "9", "3", "0">>
Code000660 == <<"0", "0", "0", "6", "6", "0">>
Code999999 == <<"9", "9", "9", "9", "9", "9">>

\* fdr.StockListing("KRX"); Marcap is held in units of 10^8 won
KrxListing ==
    [kind |-> "frame", columns |-> {"Code", "Name", "Marcap"},
     rows |-> << [Code |-> Code005930, Name |-> Samsung,
                  Marcap |-> PyInt(4200000)],
                 [Code |-> Code000660, Name |-> Hynix, Marcap |-> None],
                 [Code |-> NAME_TO_CODE[Kakao], Name |-> Kakao,
                  Marcap |-> PyInt(9000)] >>]

ProviderError == Exception("ConnectionError", <<"t", "i", "m", "e", "o", "u", "t">>)

Unavailable ==
    Exception("HTTPError", <<"5", "0", "3", " ", "K", "R", "X">>)

ListingOutcomes ==
    { Raises(ProviderError), KrxListing,
      [kind |-> "frame", columns |-> {}, rows |-> <<>>],
      [kind |-> "frame", columns |-> {"Code"},
       rows |-> << [Code |-> Code005930] >>] }

Ohlc == {"Open", "High", "Low", "Close", "Volume"}

\* fdr.DataReader(code, start, end): `rows` daily rows, `valid` of them
\* with a Close, `last` the latest Close, past[n] the Close n rows before
History(columns, rows, valid, last, p20, p60, p240, high, low) ==
    [kind |-> "frame", columns |-> columns, rows |-> rows, valid |-> valid,
     last |-> last, past |-> [n \in {20, 60, 240} |->
                                 IF n = 20 THEN p20
                                 ELSE IF n = 60 THEN p60 ELSE p240],
     high |-> high, low |-> low]

HistoryOutcomes ==
    { Raises(ProviderError),
      Raises(Unavailable),
      History(Ohlc, 0, 0, 0, 0, 0, 0, 0, 0),
      History(Ohlc \ {"High"}, 245, 245, 70000, 68000, 0, 56000, 80000, 50000),
      History(Ohlc, 3, 0, 0, 0, 0, 0, 0, 0),
      History(Ohlc, 245, 245, 70000, 68000, 0, 56000, 80000, 50000),
      History(Ohlc, 30, 30, 50000, 40000, 0, 0, 50000, 39000),
      [kind |-> "frame", columns |-> Ohlc, rows |-> 5, valid |-> 5,
       close |-> <<"N", "/", "A">>] }

\* fdr.StockSummary(code)
SummaryOutcomes ==
    { Raises(ProviderError),
      [kind |-> "none"],
      [kind |-> "dict", d |-> [k \in {"PER"} |-> None]],
      [kind |-> "dict", d |-> [k \in {"PER"} |-> PyFloat(25, 2)]],
      [kind |-> "dict", d |-> [k \in {"PBR"} |-> PyFloat(3, 2)]],
      [kind |-> "dict",
       d |-> [k \in {"PER", "PBR", "ROE", "EPS", "BPS"} |->
                 IF k = "PER" THEN PyFloat(25, 2)
                 ELSE IF k = "PBR" THEN PyFloat(3, 2)
                 ELSE IF k = "ROE" THEN PyFloat(12, 1)
                 ELSE IF k = "EPS" THEN PyInt(5600) ELSE PyInt(46000)]] }

\* DartClient.get_corp_code(ticker)
CorpOutcomes ==
    { Raises(ProviderError),
      [kind |-> "value", value |-> None],
      [kind |-> "value",
       value |-> PyStr(<<"0", "0", "1", "2", "6", "3", "8", "0">>)] }

Filing(rows) ==
    [kind |-> "frame", columns |-> {"account_nm", "thstrm_amount"},
     rows |-> rows]

RoundTripFiling ==
    Filing(<< Row(PyStr(NetIncomeWord), PyFloat(1000, 1)),
              Row(PyStr(TotalEquityWord), PyFloat(5000, 1)),
              Row(PyStr(EPS_KEYS[1]), PyFloat(100, 1)) >>)

\* DartClient.get_financials(corp_code, year, "11011", "CFS")
FilingOutcomes ==
    { Raises(ProviderError),
      [kind |-> "none"],
      Filing(<<>>),
      RoundTripFiling,
      Filing(<< Row(PyStr(NetIncomeWord \o LossSuffix), PyFloat(-2000, 1)),
                Row(PyStr(TotalEquityWord), PyFloat(5000, 1)),
                Row(PyStr(EPS_KEYS[2] \o LossSuffix), PyFloat(3, 2)) >>),
      Filing(<< Row(PyStr(NetIncomeWord), PyFloat(1000, 1)),
                Row(PyStr(TotalEquityWord), PyFloat(5000, 1)),
                Row(PyStr(EPS_KEYS[1]), PyFloat(0, 1)) >>),
      Filing(<< Row(PyStr(TotalEquityWord), PyFloat(5000, 1)),
                Row(PyStr(EPS_KEYS[1]), PyFloat(100, 1)) >>),
      [kind |-> "frame", columns |-> {"thstrm_amount"},
       rows |-> << Row(None, PyFloat(1000, 1)) >>] }

Accepted(tmp) == tmp.kind = "frame" /\ tmp.rows # <<>>

\* what get_financials does for each of the years tried; a year after an
\* accepted one is never asked for, so its answer is left at "none"; the
\* filings of the earlier years are of one kind
FilingAnswers ==
    {fin \in [1..Len(years_to_try) -> FilingOutcomes] :
        /\ \A i, j \in 1..Len(years_to_try) :
               (i < j /\ Accepted(fin[i])) => fin[j] = [kind |-> "none"]
        /\ \A i \in 2..Len(years_to_try) :
               Accepted(fin[i]) => fin[i] = RoundTripFiling}

\* the arguments generate_report is called with
ReportTickers ==
    { None, PyStr(<<>>), PyStr(<<" ", " ">>), PyStr(Code005930),
      PyStr(<<" ">> \o Samsung \o <<" ">>), PyStr(Hynix), PyStr(Code999999) }

\* the arguments generate_raw_report is called with by another caller
RawTickers ==
    { PyInt(5930), PyStr(<<>>), PyStr(<<" ">>), PyStr(Code005930) }

(***************************************************************************)
(* State.                                                                  *)
(***************************************************************************)
VARIABLES
    fdr,              \* FinanceDataReader was imported
    hasStockSummary,  \* hasattr(fdr, "StockSummary")
    dart,             \* DART_LOADER and METRICS_CALCULATOR are set
    pc,               \* where the report computation stands
    entry,            \* the function the caller called
    ticker,           \* the ticker generate_raw_report works on
    snapshot,         \* load_stock_snapshot's result
    primary,          \* load_stock_metrics' result
    metrics,          \* the metrics after the DART step
    resolution,       \* what the DART step did
    calls,            \* the provider calls made so far, in order
    faults,           \* the provider calls that raised, and what they raised
    filings,          \* what each get_financials call made gave, in order
    raw,              \* what generate_raw_report returned or raised
    response,         \* what generate_report returned
    u_pc,             \* the calculator called on its own: its position,
    u_df,             \* the frame,
    u_keys,           \* the synonym list,
    u_price,          \* the price,
    u_value,          \* _extract_value_by_keys' result,
    u_metrics,        \* calculate_from_dataframe's result
    f_pc,             \* the formatting helpers called on their own: position,
    f_resp,           \* the value given to _ensure_kakao_format,
    f_text,           \* the narrative text,
    f_price,          \* the current price,
    f_out,            \* the helper's result
    b_pc,             \* cache_reports_to_s3: where the run stands
    b_run,            \* the number of the run
    today_str,        \* the day of the run
    s3_latest,        \* the object at LATEST_KEY, None when there is none
    s3_dated,         \* the objects at reports/<day>/all_reports.json
    existing_data,    \* the data of the latest cache as loaded
    all_tickers,      \* load_all_krx_tickers()
    remaining_tickers,
    processed,
    success,
    errors,
    all_results,
    generated,        \* the tickers given to build_report_for_ticker
    saved             \* the payloads the run has put, in order

vars == <<fdr, hasStockSummary, dart, pc, entry, ticker, snapshot, primary,
          metrics, resolution, calls, faults, filings, raw, response,
          u_pc, u_df, u_keys, u_price, u_value, u_metrics,
          f_pc, f_resp, f_text, f_price, f_out,
          b_pc, b_run, today_str, s3_latest, s3_dated, existing_data,
          all_tickers, remaining_tickers, processed, success, errors,
          all_results, generated, saved>>

config == <<fdr, hasStockSummary, dart>>
unit == <<u_pc, u_df, u_keys, u_price, u_value, u_metrics>>
formatting == <<f_pc, f_resp, f_text, f_price, f_out>>
store == <<s3_latest, s3_dated>>
run == <<b_run, today_str, existing_data, all_tickers, remaining_tickers,
         processed, success, errors, all_results, generated, saved>>
batch == <<b_pc, store, run>>
request == <<pc, entry, ticker, snapshot, primary, metrics, resolution,
             calls, faults, filings, raw, response>>

Idle ==
    /\ pc = "idle"
    /\ entry = "none"
    /\ ticker = None
    /\ snapshot = None
    /\ primary = None
    /\ metrics = None
    /\ resolution = None
    /\ calls = <<>>
    /\ faults = {}
    /\ filings = <<>>
    /\ raw = None
    /\ response = None

UnitOff ==
    /\ u_pc = "off"
    /\ u_df = <<>>
    /\ u_keys = <<>>
    /\ u_price = 0
    /\ u_value = None
    /\ u_metrics = None

(***************************************************************************)
(* The daily batch, cache_reports_to_s3.  A ticker is the rank of its     *)
(* code in the sorted listing; a day is a day number.                      *)
(***************************************************************************)
BATCH_SAVE_INTERVAL == 10

MaxRuns == 2
MaxTickers == 12

\* a dict as a function of its keys
NoData == [t \in {} |-> None]

Put(d, key, value) ==
    [k \in DOMAIN d \cup {key} |-> IF k = key THEN value ELSE d[k]]

NoObjects == [day \in 1..MaxRuns |-> None]

\* build_report_for_ticker(ticker) in run r, with the "ticker" entry the
\* loop adds: the skill JSON of generate_report on that run's market data
Report(t, r) ==
    [py |-> "dict", version |-> "2.0",
     template |-> [py |-> "dict", about |-> t, computed |-> r],
     ticker |-> t]

\* make_payload(today_str, all_results); the clock reading updated_at is
\* left out
make_payload(day, results) ==
    [date |-> day, count |-> Cardinality(DOMAIN results), data |-> results]

\* A variant of RemainingTickers that skips nothing.
EveryTicker(tickers, existing) == tickers

\* [t for t in all_tickers if t not in existing_data]
RemainingTickers(tickers, existing) ==
    SelectSeq(tickers, LAMBDA t : t \notin DOMAIN existing)

BatchOff ==
    /\ b_pc = "off"
    /\ b_run = 0
    /\ today_str = 1
    /\ s3_latest = None
    /\ s3_dated = NoObjects
    /\ existing_data = NoData
    /\ all_tickers = <<>>
    /\ remaining_tickers = <<>>
    /\ processed = 0
    /\ success = 0
    /\ errors = 0
    /\ all_results = NoData
    /\ generated = {}
    /\ saved = <<>>

FormattingOff ==
    /\ f_pc = "off"
    /\ f_resp = None
    /\ f_text = <<>>
    /\ f_price = None
    /\ f_out = None

\* the process after import, before any request
Init ==
    /\ fdr \in BOOLEAN
    /\ hasStockSummary \in BOOLEAN
    /\ dart \in BOOLEAN
    /\ Idle
    /\ UnitOff
    /\ FormattingOff
    /\ BatchOff

\* the calls among `made` that raised: `made` begins with the calls of
\* _normalize_ticker (`normCalls`), the others are made by `by`;
\* outcomes[1] is what the call of _normalize_ticker does, the next ones
\* what the calls of `by` do, in order.
Faults(by, normCalls, made, outcomes) ==
    LET skipped == IF normCalls = <<>> THEN 1 ELSE 0
        outcome(i) == outcomes[i + skipped]
    IN  {[by |-> IF i <= Len(normCalls) THEN "_normalize_ticker" ELSE by,
          fn |-> made[i].fn,
          exc |-> outcome(i).exc] :
            i \in {j \in 1..Len(made) : outcome(j).kind = "raise"}}

\* what fdr.StockListing does when _normalize_ticker(t) calls it; when it
\* makes no such call the answer is immaterial and left at KrxListing
ListingAnswers(t) ==
    IF t.py = "str" /\ _normalize_ticker(t.s, fdr, KrxListing).calls # <<>>
    THEN ListingOutcomes
    ELSE {KrxListing}

NoFilings == [i \in 1..Len(years_to_try) |-> [kind |-> "none"]]

\* what get_corp_code and get_financials do in the DART step; where the
\* step asks for no issuer, or finds none and asks for no filing, the
\* answers are immaterial and left at "none"
DartAnswers ==
    IF pc = "enhance" /\ dart /\ ~has_any_value(metrics)
    THEN {a \in CorpOutcomes \X FilingAnswers :
             (a[1].kind = "raise" \/ a[1].value = None) => a[2] = NoFilings}
    ELSE {<<[kind |-> "value", value |-> None], NoFilings>>}

(***************************************************************************)
(* generate_report and generate_raw_report, step by step.                  *)
(***************************************************************************)
\* generate_report(ticker), to the call of generate_raw_report
GenerateReport(t) ==
    LET norm_ticker == IF IsTrue(t) THEN Strip(t.s) ELSE <<>>
    IN  /\ pc = "idle"
        /\ entry' = "generate_report"
        /\ IF norm_ticker = <<>>
           THEN /\ response' = _ensure_kakao_format(
                                   build_no_data_response(NotEntered))
                /\ pc' = "done"
                /\ ticker' = ticker
           ELSE /\ ticker' = PyStr(norm_ticker)
                /\ pc' = "snapshot"
                /\ response' = response
        /\ UNCHANGED <<snapshot, primary, metrics, resolution, calls, faults,
                       filings, raw>>
        /\ UNCHANGED <<config, unit, formatting, batch>>

\* generate_raw_report(ticker) called by another caller
GenerateRawReport(t) ==
    /\ pc = "idle"
    /\ entry' = "generate_raw_report"
    /\ ticker' = t
    /\ pc' = "snapshot"
    /\ UNCHANGED <<snapshot, primary, metrics, resolution, calls, faults,
                   filings, raw, response>>
    /\ UNCHANGED <<config, unit, formatting, batch>>

\* generate_raw_report: the guards and load_stock_snapshot
Snapshot(normListing, listing, history) ==
    /\ pc = "snapshot"
    /\ IF ticker.py # "str" \/ Strip(ticker.s) = <<>>
       THEN /\ raw' = Returned(EmptyDict, <<>>)
            /\ pc' = "returned"
            /\ UNCHANGED <<ticker, snapshot, calls, faults>>
       ELSE LET got == load_stock_snapshot(Strip(ticker.s), fdr,
                                           normListing, listing, history)
                norm == _normalize_ticker(Strip(ticker.s), fdr, normListing)
            IN  /\ ticker' = PyStr(Strip(ticker.s))
                /\ calls' = calls \o got.calls
                /\ faults' = faults \cup
                       Faults("load_stock_snapshot", norm.calls, got.calls,
                              <<normListing, listing, history>>)
                /\ snapshot' = got.value
                /\ IF got.exc # None
                   THEN raw' = Raised(got.exc, <<>>) /\ pc' = "returned"
                   ELSE IF got.value = None
                   THEN raw' = Returned(EmptyDict, <<>>) /\ pc' = "returned"
                   ELSE raw' = raw /\ pc' = "metrics"
    /\ UNCHANGED <<entry, primary, metrics, resolution, filings, response>>
    /\ UNCHANGED <<config, unit, formatting, batch>>

\* generate_raw_report: load_stock_metrics
Metrics(normListing, summary) ==
    /\ pc = "metrics"
    /\ LET got == load_stock_metrics(ticker.s, fdr, hasStockSummary,
                                     normListing, summary)
           norm == _normalize_ticker(ticker.s, fdr, normListing)
       IN  /\ primary' = got.value
           /\ metrics' = got.value
           /\ calls' = calls \o got.calls
           /\ faults' = faults \cup
                  Faults("load_stock_metrics", norm.calls, got.calls,
                         <<normListing, summary>>)
    /\ pc' = "enhance"
    /\ UNCHANGED <<entry, ticker, snapshot, resolution, filings, raw, response>>
    /\ UNCHANGED <<config, unit, formatting, batch>>

\* the calls of fn among `made`
CallsOf(fn, made) == SelectSeq(made, LAMBDA c : c.fn = fn)

\* generate_raw_report: _enhance_metrics_with_dart_if_needed
Enhance(normListing, corp, fin) ==
    /\ pc = "enhance"
    /\ LET got == _enhance_metrics_with_dart_if_needed(
                      snapshot.ticker, metrics, snapshot.current_price,
                      dart, fdr, normListing, corp, fin)
           norm == _normalize_ticker(snapshot.ticker, fdr, normListing)
       IN  /\ metrics' = got.metrics
           /\ resolution' = got
           /\ calls' = calls \o got.calls
           /\ faults' = faults \cup
                  Faults("load_financials",
                         IF got.attempted THEN norm.calls ELSE <<>>,
                         got.calls, <<normListing, corp>> \o fin)
           /\ filings' = SubSeq(fin, 1, Len(CallsOf("get_financials",
                                                    got.calls)))
    /\ pc' = "assemble"
    /\ UNCHANGED <<entry, ticker, snapshot, primary, raw, response>>
    /\ UNCHANGED <<config, unit, formatting, batch>>

\* generate_raw_report: the assembly and the return
Assemble ==
    /\ pc = "assemble"
    /\ raw' = Returned(build_report_data(snapshot, metrics,
                                         resolution.financial_text), <<>>)
    /\ pc' = "returned"
    /\ UNCHANGED <<entry, ticker, snapshot, primary, metrics, resolution,
                   calls, faults, filings, response>>
    /\ UNCHANGED <<config, unit, formatting, batch>>

\* generate_report, from the return of generate_raw_report
Respond ==
    /\ pc = "returned"
    /\ entry = "generate_report"
    /\ response' = RespondTo(ticker.s, raw)
    /\ pc' = "done"
    /\ UNCHANGED <<entry, ticker, snapshot, primary, metrics, resolution,
                   calls, faults, filings, raw>>
    /\ UNCHANGED <<config, unit, formatting, batch>>

Next ==
    \/ \E t \in ReportTickers : GenerateReport(t)
    \/ \E t \in RawTickers : GenerateRawReport(t)
    \/ \E normListing \in ListingAnswers(ticker),
          listing \in ListingOutcomes, history \in HistoryOutcomes :
          Snapshot(normListing, listing, history)
    \/ \E normListing \in ListingAnswers(ticker),
          summary \in SummaryOutcomes :
          Metrics(normListing, summary)
    \/ \E normListing \in ListingAnswers(ticker), answers \in DartAnswers :
          Enhance(normListing, answers[1], answers[2])
    \/ Assemble
    \/ Respond

Spec == Init /\ [][Next]_vars

(***************************************************************************)
(* The calculator on its own: a frame of line items is drawn, then         *)
(* _extract_value_by_keys or calculate_from_dataframe is applied to it.    *)
(***************************************************************************)
UnitInit ==
    /\ fdr = TRUE
    /\ hasStockSummary = FALSE
    /\ dart = TRUE
    /\ Idle
    /\ FormattingOff
    /\ BatchOff
    /\ u_pc = "drawn"
    /\ u_df \in FramesUpTo(MaxRows)
    /\ u_keys = <<>>
    /\ u_price = 0
    /\ u_value = None
    /\ u_metrics = None

Extract(keys) ==
    /\ u_pc = "drawn"
    /\ u_keys' = keys
    /\ u_value' = _extract_value_by_keys(u_df, keys)
    /\ u_pc' = "extracted"
    /\ UNCHANGED <<u_df, u_price, u_metrics>>
    /\ UNCHANGED <<config, request, formatting, batch>>

Calculate(current_price) ==
    /\ u_pc = "drawn"
    /\ u_price' = current_price
    /\ u_metrics' = calculate_from_dataframe(u_df, current_price)
    /\ u_pc' = "calculated"
    /\ UNCHANGED <<u_df, u_keys, u_value>>
    /\ UNCHANGED <<config, request, formatting, batch>>

UnitNext ==
    \/ \E keys \in KeyLists : Extract(keys)
    \/ \E current_price \in PricePool : Calculate(current_price)

UnitSpec == UnitInit /\ [][UnitNext]_vars

(***************************************************************************)
(* The formatting helpers on their own: a value, a narrative text and a    *)
(* current price are drawn, then one helper is applied.                    *)
(***************************************************************************)
LongText == 120

Run(c, n) == [i \in 1..n |-> c]

\* values that may reach _ensure_kakao_format
ResponsePool ==
    {build_error_response,
     _simple_text_skill(PyStr(<<"o", "k">>)),
     [py |-> "dict", version |-> "1.0", template |-> None],
     [py |-> "dict", version |-> "2.0"],
     [py |-> "dict", template |-> EmptyDict],
     EmptyDict,
     None,
     PyList(<<>>),
     PyList(<<build_error_response>>),
     PyInt(3),
     PyStr(<<>>),
     PyStr(<<" ", "\n">>),
     PyStr(<<"t", "i", "m", "e", "d", " ", "o", "u", "t">>),
     PyStr(Run("x", SkillTextLimit)),
     PyStr(Run("x", SkillTextLimit + 1))}

\* narrative texts
TextPool ==
    {
        \* the empty text
        <<>>,
        \* the ASCII full stop and space alone
        <<"sil", "jeok", " ", "gae", "seon", ".", " ", "mae", "su",
          " ", "yu", "ji">>,
        \* the full-width period before ". "
        <<"mae", "su", "(fullstop)", "mok", "pyo", "ga", " ", "6", "0",
          ",", "0", "0", "0", "won", ".", " ", "i", "sang">>,
        \* the newline before ". "
        <<"bo", "yu", "\n", "mok", "pyo", "ga", " ", "1", ",", "2",
          "3", "4", ",", "5", "6", "7", "won", ".", " ", "kkeuth">>,
        \* the newline before the full-width period
        <<"mae", "do", "\n", "s", "e", "l", "l", "(fullstop)",
          "kkeuth">>,
        \* SELL and BUY keywords
        <<"mae", "do", " ", "hu", " ", "mae", "su">>,
        \* HOLD and SELL keywords, in English
        <<"H", "o", "l", "d", " ", "o", "r", " ", "S", "e", "l", "l">>,
        \* upper case
        <<"B", "U", "Y">>,
        \* no keyword, no number
        <<"jung", "rip">>,
        \* no number
        <<"N", "/", "A">>,
        \* the target of the upside example
        <<"mok", "pyo", "ga", " ", "6", "0", ",", "0", "0", "0", "won">>,
        \* a comma before the number
        <<"mae", "su", ",", " ", "mok", "pyo", "ga", " ", "6", "0",
          ",", "0", "0", "0", "won">>,
        \* a date before the price
        <<"2", "0", "2", "4", "-", "0", "5", "-", "0", "1", " ", "mok",
          "pyo", "ga", " ", "6", "0", ",", "0", "0", "0", "won">>,
        \* commas anywhere in the token
        <<"mok", "pyo", "ga", " ", "6", "0", ",", "0", "0", ",", "0">>,
        \* leading zeros
        <<"mok", "pyo", "ga", " ", "0", "0", "7">>,
        \* a target below every price
        <<"mok", "pyo", "ga", " ", "3", "5", "won", " ", "mae", "do">>,
        \* a full stop without a space
        <<"v", ".", "1">>,
        \* texts without a terminator, around the budget
        Run("x", SummaryBudget - 1),
        Run("x", SummaryBudget),
        Run("x", SummaryBudget + 1),
        Run("x", LongText),
        \* a first sentence within and beyond the budget
        Run("x", SummaryBudget) \o <<".", " ", "y">>,
        Run("x", LongText) \o <<".", " ", "y">>}

\* basic.get("current_price")
CurrentPrices ==
    {None, PyInt(0), PyInt(-100), PyInt(3), PyInt(350), PyInt(50000),
     PyInt(70000)}

FormatInit ==
    /\ fdr = TRUE
    /\ hasStockSummary = FALSE
    /\ dart = TRUE
    /\ Idle
    /\ UnitOff
    /\ BatchOff
    /\ f_pc = "drawn"
    /\ f_resp \in ResponsePool
    /\ f_text \in TextPool
    /\ f_price \in CurrentPrices
    /\ f_out = None

EnsureKakaoFormat ==
    /\ f_pc = "drawn"
    /\ f_out' = _ensure_kakao_format(f_resp)
    /\ f_pc' = "ensured"
    /\ UNCHANGED <<f_resp, f_text, f_price>>
    /\ UNCHANGED <<config, request, unit, batch>>

OneLineSummary ==
    /\ f_pc = "drawn"
    /\ f_out' = PyStr(_one_line_summary(f_text))
    /\ f_pc' = "summarised"
    /\ UNCHANGED <<f_resp, f_text, f_price>>
    /\ UNCHANGED <<config, request, unit, batch>>

ExtractOpinionAndTarget ==
    /\ f_pc = "drawn"
    /\ f_out' = _extract_opinion_and_target(f_text)
    /\ f_pc' = "extracted"
    /\ UNCHANGED <<f_resp, f_text, f_price>>
    /\ UNCHANGED <<config, request, unit, batch>>

\* _build_opinion_card's upside: the target it extracts, given to
\* _calc_upside with the current price
CalcUpside ==
    /\ f_pc = "drawn"
    /\ LET target_price == _extract_opinion_and_target(f_text).target
       IN  f_out' = [target |-> target_price,
                     upside |-> PyStr(_calc_upside(f_price, target_price))]
    /\ f_pc' = "upside"
    /\ UNCHANGED <<f_resp, f_text, f_price>>
    /\ UNCHANGED <<config, request, unit, batch>>

FormatNext ==
    \/ EnsureKakaoFormat
    \/ OneLineSummary
    \/ ExtractOpinionAndTarget
    \/ CalcUpside

FormatSpec == FormatInit /\ [][FormatNext]_vars

(***************************************************************************)
(* The batch on its own: runs of cache_reports_to_s3, one after another,   *)
(* over one bucket.                                                        *)
(***************************************************************************)
\* what pykrx gives for the two markets together: it raises, or lists the
\* first n tickers
Listings == {[kind |-> "raise"]} \cup
            {[kind |-> "list", tickers |-> [i \in 1..n |-> i]] :
                 n \in {0, 2, MaxTickers}}

\* the tickers for which build_report_for_ticker may raise
FailingTickers == {2}

BuildAnswers(t) ==
    IF t \in FailingTickers THEN {"report", "raise"} ELSE {"report"}

\* what S3.put_object does
PutAnswers == {"ok", "raise"}

BatchInit ==
    /\ fdr = TRUE
    /\ hasStockSummary = FALSE
    /\ dart = TRUE
    /\ Idle
    /\ UnitOff
    /\ FormattingOff
    /\ b_pc = "idle"
    /\ b_run = 0
    /\ today_str = 1
    /\ s3_latest = None
    /\ s3_dated = NoObjects
    /\ existing_data = NoData
    /\ all_tickers = <<>>
    /\ remaining_tickers = <<>>
    /\ processed = 0
    /\ success = 0
    /\ errors = 0
    /\ all_results = NoData
    /\ generated = {}
    /\ saved = <<>>

\* the script is started, on the day of the run before or on the next day
StartRun(day) ==
    /\ b_pc \in {"idle", "finished", "aborted"}
    /\ b_run < MaxRuns
    /\ day \in {today_str, today_str + 1}
    /\ day <= MaxRuns
    /\ b_run = 0 => day = today_str
    /\ b_run' = b_run + 1
    /\ today_str' = day
    /\ existing_data' = NoData
    /\ all_tickers' = <<>>
    /\ remaining_tickers' = <<>>
    /\ processed' = 0
    /\ success' = 0
    /\ errors' = 0
    /\ all_results' = NoData
    /\ generated' = {}
    /\ saved' = <<>>
    /\ b_pc' = "load"
    /\ UNCHANGED store
    /\ UNCHANGED <<config, request, unit, formatting>>

\* cache_reports_to_s3: the latest cache is loaded; get_object raises when
\* there is no object, and may raise when there is one
LoadCache(get) ==
    /\ b_pc = "load"
    /\ existing_data' = IF get = "ok" /\ s3_latest # None
                        THEN s3_latest.data
                        ELSE NoData
    /\ b_pc' = "list"
    /\ UNCHANGED <<b_run, today_str, all_tickers, remaining_tickers,
                   processed, success, errors, all_results, generated,
                   saved>>
    /\ UNCHANGED store
    /\ UNCHANGED <<config, request, unit, formatting>>

\* cache_reports_to_s3: the listing and the tickers left to do
ListTickers(listing) ==
    /\ b_pc = "list"
    /\ IF listing.kind = "raise"
       THEN /\ b_pc' = "aborted"
            /\ UNCHANGED <<all_tickers, remaining_tickers, all_results>>
       ELSE LET remaining == RemainingTickers(listing.tickers,
                                              existing_data)
            IN  /\ all_tickers' = listing.tickers
                /\ remaining_tickers' = remaining
                /\ all_results' = existing_data
                /\ b_pc' = IF remaining = <<>> THEN "dated" ELSE "loop"
    /\ UNCHANGED <<b_run, today_str, existing_data, processed, success,
                   errors, generated, saved>>
    /\ UNCHANGED store
    /\ UNCHANGED <<config, request, unit, formatting>>

\* one turn of the loop over remaining_tickers, its interim save included
Process(built, put) ==
    /\ b_pc = "loop"
    /\ processed < Len(remaining_tickers)
    /\ LET t == remaining_tickers[processed + 1]
           results == Put(all_results, t, Report(t, b_run))
           saves == built = "report"
                    /\ (processed + 1) % BATCH_SAVE_INTERVAL = 0
           payload == make_payload(today_str, results)
           next == IF processed + 1 = Len(remaining_tickers)
                   THEN "latest" ELSE "loop"
       IN  /\ built \in BuildAnswers(t)
           /\ ~saves => put = "ok"
           /\ processed' = processed + 1
           /\ generated' = generated \cup {t}
           /\ IF built = "raise"
              THEN /\ errors' = errors + 1
                   /\ UNCHANGED <<success, all_results, saved, s3_latest>>
                   /\ b_pc' = next
              ELSE /\ all_results' = results
                   /\ success' = success + 1
                   /\ errors' = errors
                   /\ IF saves /\ put = "ok"
                      THEN /\ s3_latest' = payload
                           /\ saved' = Append(saved, payload)
                      ELSE UNCHANGED <<s3_latest, saved>>
                   /\ b_pc' = IF saves /\ put = "raise" THEN "aborted"
                              ELSE next
    /\ UNCHANGED <<b_run, today_str, existing_data, all_tickers,
                   remaining_tickers, s3_dated>>
    /\ UNCHANGED <<config, request, unit, formatting>>

\* save_latest(today_str, all_results) after the loop
SaveLatest(put) ==
    /\ b_pc = "latest"
    /\ IF put = "ok"
       THEN /\ s3_latest' = make_payload(today_str, all_results)
            /\ saved' = Append(saved, make_payload(today_str, all_results))
            /\ b_pc' = "dated"
       ELSE /\ b_pc' = "aborted"
            /\ UNCHANGED <<s3_latest, saved>>
    /\ UNCHANGED <<b_run, today_str, existing_data, all_tickers,
                   remaining_tickers, processed, success, errors,
                   all_results, generated, s3_dated>>
    /\ UNCHANGED <<config, request, unit, formatting>>

\* save_dated(today_str, all_results), after the loop or when nothing
\* remained
SaveDated(put) ==
    /\ b_pc = "dated"
    /\ IF put = "ok"
       THEN /\ s3_dated' =
                   [s3_dated EXCEPT
                        ![today_str] = make_payload(today_str, all_results)]
            /\ saved' = Append(saved, make_payload(today_str, all_results))
            /\ b_pc' = "finished"
       ELSE /\ b_pc' = "aborted"
            /\ UNCHANGED <<s3_dated, saved>>
    /\ UNCHANGED <<b_run, today_str, existing_data, all_tickers,
                   remaining_tickers, processed, success, errors,
                   all_results, generated, s3_latest>>
    /\ UNCHANGED <<config, request, unit, formatting>>

BatchNext ==
    \/ \E day \in 1..MaxRuns : StartRun(day)
    \/ \E get \in {"ok", "raise"} : LoadCache(get)
    \/ \E listing \in Listings : ListTickers(listing)
    \/ \E built \in {"report", "raise"}, put \in PutAnswers :
          Process(built, put)
    \/ \E put \in PutAnswers : SaveLatest(put)
    \/ \E put \in PutAnswers : SaveDated(put)

BatchSpec == BatchInit /\ [][BatchNext]_vars

(***************************************************************************)
(* Properties of the report computation (Spec).                            *)
(***************************************************************************)
\* generate_raw_report was called and has ended
Returned_ == pc \in {"returned", "done"} /\ raw # None

\* generate_raw_report returned a non-empty report
ReportProduced == Returned_ /\ raw.exc = None /\ IsTrue(raw.value)

\* generate_raw_report returned the empty report
NoReport == Returned_ /\ raw.exc = None /\ raw.value = EmptyDict

CallsTo(fns) == {i \in 1..Len(calls) : calls[i].fn \in fns}

AnyPresent(m) ==
    m.per # None \/ m.pbr # None \/ m.roe # None \/ m.eps # None
    \/ m.bps # None

AllAbsent(m) == ~AnyPresent(m)

\* C1: whatever the ticker and whatever the providers do, generate_report
\* returns a dict that has a "version" and a "template" key.
C1_AlwaysSkillJson ==
    (entry = "generate_report" /\ pc = "done") =>
        /\ response.py = "dict"
        /\ "version" \in DOMAIN response
        /\ "template" \in DOMAIN response

\* a request whose quote provider raised out of generate_raw_report was
\* answered
C1_AnsweredAfterRaise ==
    /\ entry = "generate_report"
    /\ pc = "done"
    /\ raw # None
    /\ raw.exc # None
    /\ "template" \in DOMAIN response

\* C2: when a report was assembled, the response's outputs are the five
\* cards (summary, price trend, financial statement, valuation, opinion, in
\* that order) and the template carries the shared quick replies.
C2_FiveCardsAndQuickReplies ==
    (entry = "generate_report" /\ pc = "done" /\ raw # None
     /\ raw.exc = None /\ IsTrue(raw.value)) =>
        LET template == response.template
            outputs == template.outputs.items
        IN  /\ Len(outputs) = 5
            /\ outputs = <<ItemCard(_build_summary_card(raw.value)),
                           ItemCard(_build_price_card(raw.value)),
                           ItemCard(_build_financial_card(raw.value)),
                           ItemCard(_build_valuation_card(raw.value)),
                           ItemCard(_build_opinion_card(raw.value))>>
            /\ Has(template, "quickReplies")
            /\ template.quickReplies = PyList(_build_common_quick_replies)

\* C3: when the primary source gave at least one of the five metrics, the
\* filing source is not asked, the calculator is not called, and the
\* primary metrics are what the report carries.
C3_PrimaryPresentNoFallback ==
    (primary # None /\ AnyPresent(primary)) =>
        /\ CallsTo({"get_corp_code", "get_financials"}) = {}
        /\ resolution # None =>
               /\ ~resolution.attempted
               /\ ~resolution.calculator_called
               /\ metrics = primary
        /\ ReportProduced => raw.value.raw_data.metrics = primary

\* the primary source gave PBR alone, the filing source was configured and
\* the price was there, and the report was assembled
C3_PbrAloneKept ==
    /\ ReportProduced
    /\ dart
    /\ primary.per = None
    /\ primary.pbr # None
    /\ Truthy(snapshot.current_price)
    /\ raw.value.raw_data.metrics = primary

\* the fallback ran and could not compute: the issuer was not found, no
\* usable filing was found, or net income, equity or EPS resolved to 0
FallbackFailed ==
    /\ resolution # None
    /\ resolution.attempted
    /\ \/ resolution.df = None
       \/ \E keys \in {NET_INCOME_KEYS, EQUITY_KEYS, EPS_KEYS} :
              FIsZero(_extract_value_by_keys(resolution.df.rows, keys))

\* C8: when the fallback was attempted and failed, all five metrics stay
\* absent, nothing is raised and the report is still produced.
C8_FailedFallbackAllAbsent ==
    FallbackFailed =>
        /\ AllAbsent(metrics)
        /\ Returned_ =>
               /\ raw.exc = None
               /\ IsTrue(raw.value)
               /\ AllAbsent(raw.value.raw_data.metrics)

\* a filing was accepted, the calculator was called on it and gave nothing,
\* and the report was produced
C8_CalculatorGaveNothing ==
    /\ ReportProduced
    /\ FallbackFailed
    /\ resolution.calculator_called
    /\ AllAbsent(raw.value.raw_data.metrics)

\* C9: the metrics of a report are the primary metrics as they came, or,
\* only when all five primary metrics were absent, the calculator's result
\* on the accepted filing; the two are never blended.
C9_OneSource ==
    ReportProduced =>
        LET m == raw.value.raw_data.metrics
        IN  \/ m = primary
            \/ /\ AllAbsent(primary)
               /\ resolution.df # None
               /\ m = calculate_from_dataframe(resolution.df.rows,
                                               snapshot.current_price.v)

\* a report whose metrics all came from the filing
C9_FromFiling ==
    /\ ReportProduced
    /\ AllAbsent(primary)
    /\ raw.value.raw_data.metrics.per # None
    /\ raw.value.raw_data.metrics.pbr = None

NonEmptyStr(v) == v.py = "str" /\ v.s # <<>>

\* identity, five non-empty sections, the snapshot and the metrics
FullyPopulated(report) ==
    /\ {"ticker", "name", "generated_at", "report", "raw_data"}
           \subseteq DOMAIN report
    /\ NonEmptyStr(report.ticker)
    /\ NonEmptyStr(report.name)
    /\ LET sections == report.report.sections
       IN  /\ DOMAIN sections =
                  {"py", "summary", "price_analysis", "financial_analysis",
                   "valuation", "investment_opinion"}
           /\ \A k \in DOMAIN sections \ {"py"} : NonEmptyStr(sections[k])
    /\ {"basic", "price_trend", "metrics"} \subseteq DOMAIN report.raw_data
    /\ report.raw_data.basic.current_price = snapshot.current_price
    /\ {"per", "pbr", "roe", "eps", "bps"}
           \subseteq DOMAIN report.raw_data.metrics

\* C10: what generate_raw_report returns is the empty report or a fully
\* populated one; it is the empty one exactly when the ticker is not a
\* string, is empty, or no snapshot could be produced, and then neither the
\* metrics source nor the filing source has been asked.
C10_EmptyOrFull ==
    (Returned_ /\ raw.exc = None) =>
        /\ raw.value = EmptyDict \/ FullyPopulated(raw.value)
        /\ raw.value = EmptyDict <=>
               \/ ticker.py # "str"
               \/ Strip(ticker.s) = <<>>
               \/ snapshot = None
        /\ raw.value = EmptyDict =>
               CallsTo({"StockSummary", "get_corp_code", "get_financials"})
                   = {}

\* the quote provider was asked and gave no price history: empty report
C10_NoSnapshot ==
    /\ NoReport
    /\ ticker.py = "str"
    /\ CallsTo({"DataReader"}) # {}

(***************************************************************************)
(* Properties of the calculator (UnitSpec).                                *)
(***************************************************************************)
Min(S) == CHOOSE x \in S : \A y \in S : x <= y

Resolved(keys) == _extract_value_by_keys(u_df, keys)

\* C4: when net income, equity or EPS resolves to 0 (absent included), the
\* calculator returns None: no metric at all, and so no PER on a zero EPS.
C4_ZeroMeansNone ==
    u_pc = "calculated" =>
        ((\E keys \in {NET_INCOME_KEYS, EQUITY_KEYS, EPS_KEYS} :
              Resolved(keys).n = 0)
         => u_metrics = None)

\* net income and equity were found and EPS resolved to 0
C4_ZeroEps ==
    /\ u_pc = "calculated"
    /\ Resolved(NET_INCOME_KEYS).n # 0
    /\ Resolved(EQUITY_KEYS).n # 0
    /\ Resolved(EPS_KEYS).n = 0
    /\ MatchingRows(u_df, EPS_KEYS[1]) # <<>>
    /\ u_metrics = None

\* v is a multiple of 1/100 and no multiple of 1/100 is nearer to x
NearestHundredth(v, x) ==
    /\ v.py = "float"
    /\ 100 % v.d = 0
    /\ 200 * Abs(v.n * x.d - x.n * v.d) <= v.d * x.d

\* t is x with its fraction dropped
Truncated(t, x) ==
    /\ t.py = "int"
    /\ IF x.n >= 0
       THEN t.v * x.d <= x.n /\ x.n < (t.v + 1) * x.d
       ELSE t.v * x.d >= x.n /\ x.n > (t.v - 1) * x.d

\* C5: when all three inputs are non-zero, PER = price / EPS and
\* ROE = net income / equity * 100, both to the nearest hundredth;
\* shares = net income / EPS; BPS = equity / shares when shares > 0 and 0
\* otherwise; PBR = price / BPS to the nearest hundredth when BPS > 0 and
\* absent otherwise; EPS and BPS are returned truncated to integers.  Price
\* 70000 with net income 1000, equity 5000 and EPS 100 gives PER 700.0,
\* ROE 20.0, BPS 500 and PBR 140.0.
C5_Formulas ==
    (u_pc = "calculated" /\ u_metrics # None) =>
        LET net_income == Resolved(NET_INCOME_KEYS)
            equity == Resolved(EQUITY_KEYS)
            eps == Resolved(EPS_KEYS)
            price == PyFloat(u_price, 1)
            shares == PyFloat(net_income.n * eps.d, net_income.d * eps.n)
            bps == IF shares.n > 0
                   THEN PyFloat(equity.n * shares.d, equity.d * shares.n)
                   ELSE PyFloat(0, 1)
        IN  /\ NearestHundredth(u_metrics.per,
                                PyFloat(price.n * eps.d, price.d * eps.n))
            /\ NearestHundredth(u_metrics.roe,
                                PyFloat(100 * net_income.n * equity.d,
                                        net_income.d * equity.n))
            /\ Truncated(u_metrics.eps, eps)
            /\ Truncated(u_metrics.bps, bps)
            /\ IF bps.n > 0
               THEN NearestHundredth(u_metrics.pbr,
                                     PyFloat(price.n * bps.d,
                                             price.d * bps.n))
               ELSE u_metrics.pbr = None
            /\ (u_df = RoundTripFiling.rows /\ u_price = 70000) =>
                   u_metrics = [py |-> "dict",
                                per |-> PyFloat(700, 1),
                                pbr |-> PyFloat(140, 1),
                                roe |-> PyFloat(20, 1),
                                eps |-> PyInt(100),
                                bps |-> PyInt(500)]

\* an EPS with a fraction and a PER that had to be rounded
C5_RoundedAndTruncated ==
    /\ u_pc = "calculated"
    /\ u_metrics # None
    /\ Resolved(EPS_KEYS) = PyFloat(3, 2)
    /\ u_metrics.eps = PyInt(1)
    /\ u_metrics.pbr # None
    /\ u_metrics.per = PyFloat(4666667, 100)

\* the label contains the key, character for character
Contains(label, key) == label # None /\ IsSubstring(key, label.s)

AllParse(df) == \A r \in 1..Len(df) : CanFloat(df[r].thstrm_amount)

\* C6: the synonyms are tried in the order of the list with case-sensitive
\* substring containment; the result is the value of the first row whose
\* label contains the earliest synonym that any label contains, and 0 when
\* no label contains any synonym.  (Stated on frames whose amounts all
\* parse.)
C6_EarliestContainedSynonym ==
    (u_pc = "extracted" /\ AllParse(u_df)) =>
        LET hit(i) == {r \in 1..Len(u_df) :
                          Contains(u_df[r].account_nm, u_keys[i])}
            found == {i \in 1..Len(u_keys) : hit(i) # {}}
        IN  u_value = IF found = {} THEN PyFloat(0, 1)
                      ELSE u_df[Min(hit(Min(found)))].thstrm_amount

\* the synonyms that match a row, in the program's sense of matching
Matched == {i \in 1..Len(u_keys) : MatchingRows(u_df, u_keys[i]) # <<>>}

FirstRow(i) == MatchingRows(u_df, u_keys[i])[1]

\* C7 as claimed: when the first row matched by the first matching synonym
\* carries a value that does not parse, the result is 0.
C7_UnparseableGivesZero ==
    (u_pc = "extracted" /\ Matched # {}
     /\ ~CanFloat(FirstRow(Min(Matched)).thstrm_amount)) =>
        u_value = PyFloat(0, 1)

\* C7: a synonym whose first matching row does not parse is passed over;
\* the result is the value of the first matching row of the earliest
\* synonym whose first matching row parses, and 0 when there is none.  No
\* value is taken from a second row of a synonym.
C7_UnparseablePassedOver ==
    u_pc = "extracted" =>
        LET usable == {i \in Matched : CanFloat(FirstRow(i).thstrm_amount)}
        IN  u_value = IF usable = {} THEN PyFloat(0, 1)
                      ELSE FirstRow(Min(usable)).thstrm_amount

\* the first matching synonym's first row does not parse and the value of
\* a later synonym came back
C7_LaterSynonymUsed ==
    /\ u_pc = "extracted"
    /\ Matched # {}
    /\ ~CanFloat(FirstRow(Min(Matched)).thstrm_amount)
    /\ u_value.n # 0

(***************************************************************************)
(* Properties of the responses to failures (Spec).                         *)
(***************************************************************************)
Answered == entry = "generate_report" /\ pc = "done"

\* the calls load_stock_snapshot itself made to the quote provider (the
\* instrument listing, the price history) that raised
SnapshotFaults == {f \in faults : f.by = "load_stock_snapshot"}

\* C11 as claimed: when the listing call or the price-history call of the
\* snapshot fetch raised, generate_report returns the Error response.
C11_ProviderRaiseGivesError ==
    (Answered /\ SnapshotFaults # {}) => response = build_error_response

\* C11: when the listing call or the price-history call of the snapshot
\* fetch raised, the exception is caught inside the fetch, no report is
\* produced and generate_report returns the No-data response naming the
\* ticker; the Error response is returned exactly when an exception leaves
\* generate_raw_report.
C11_ProviderRaiseGivesNoData ==
    Answered =>
        /\ SnapshotFaults # {} =>
               /\ raw.exc = None
               /\ raw.value = EmptyDict
               /\ response = build_no_data_response(ticker.s)
        /\ raw # None =>
               (response = build_error_response <=> raw.exc # None)

\* the price-history call raised and the request was answered
C11_HistoryRaised ==
    /\ Answered
    /\ \E f \in SnapshotFaults : f.fn = "DataReader"
    /\ response = build_no_data_response(ticker.s)

\* the texts a response shows: of its plain-text blocks and of its cards
OutputTexts(resp) ==
    LET outputs == resp.template.outputs.items
        texts(o) ==
            IF Has(o, "simpleText") THEN {o.simpleText.text.s}
            ELSE IF Has(o, "itemCard")
            THEN {o.itemCard.description.s}
                 \cup {o.itemCard.itemList.items[i].description.s :
                          i \in 1..Len(o.itemCard.itemList.items)}
            ELSE {}
    IN  UNION {texts(outputs[i]) : i \in 1..Len(outputs)}

\* the exceptions raised while the request was computed: by the providers,
\* out of generate_raw_report, and by the formatter
ExceptionsRaised ==
    {f.exc : f \in faults}
    \cup (IF raw # None /\ raw.exc # None THEN {raw.exc} ELSE {})
    \cup (IF ReportProduced
          THEN {build_from_raw_report(ticker.s, raw.value).exc} \ {None}
          ELSE {})

\* C12: the payload is a function of the ticker and of what
\* generate_raw_report returned, or of the mere fact that it raised: it is
\* the same whatever the type and message of any exception raised on the
\* way, and no exception's message appears in any output text.
C12_PayloadIgnoresExceptions ==
    (Answered /\ raw # None) =>
        /\ response =
               IF raw.exc # None THEN build_error_response
               ELSE IF raw.value = EmptyDict
               THEN build_no_data_response(ticker.s)
               ELSE _simple_text_skill(raw.value.report.sections.summary)
        /\ \A e \in ExceptionsRaised, text \in OutputTexts(response) :
               ~IsSubstring(e.msg, text)

\* a ValueError left generate_raw_report and the fixed apology came back
C12_ValueErrorHidden ==
    /\ Answered
    /\ raw # None
    /\ raw.exc # None
    /\ raw.exc.type = "ValueError"
    /\ response = build_error_response

(***************************************************************************)
(* Properties of the formatting helpers (FormatSpec).                      *)
(***************************************************************************)
\* a payload of version "2.0" whose only block is a plain text
PlainText(text) ==
    [py |-> "dict", version |-> "2.0",
     template |-> [py |-> "dict",
                   outputs |-> PyList(<<[py |-> "dict",
                                         simpleText |->
                                             [py |-> "dict",
                                              text |-> PyStr(text)]]>>)]]

Blank(s) == \A i \in 1..Len(s) : s[i] \in {" ", "\n", "\t"}

\* C13 as stated: a dict with `version` and `template` passes unchanged,
\* every other value becomes the plain text of the fixed apology, and a
\* second application changes nothing.
C13_OthersGetApology ==
    f_pc = "ensured" =>
        /\ IsSkillJson(f_resp) => f_out = f_resp
        /\ ~IsSkillJson(f_resp) => f_out = PlainText(GenerationErrorText)
        /\ _ensure_kakao_format(f_out) = f_out

\* C13, amended: a dict with `version` and `template` passes unchanged; a
\* string becomes the plain text of that string, stripped and cut to 980
\* characters, or of the unknown-error text when it is blank; every other
\* value becomes the plain text of the fixed apology; the result is always
\* a payload, and a second application changes nothing.
C13_StringsShown ==
    f_pc = "ensured" =>
        /\ IsSkillJson(f_resp) => f_out = f_resp
        /\ (f_resp.py = "str" /\ ~Blank(f_resp.s)) =>
               LET given == Strip(f_resp.s)
                   shown == IF Len(given) <= SkillTextLimit THEN given
                            ELSE SubSeq(given, 1, SkillTextLimit - 1)
                                 \o <<"(ellipsis)">>
               IN  /\ Len(shown) <= SkillTextLimit
                   /\ f_out = PlainText(shown)
        /\ (f_resp.py = "str" /\ Blank(f_resp.s)) =>
               f_out = PlainText(UnknownErrorText)
        /\ (~IsSkillJson(f_resp) /\ f_resp.py # "str") =>
               f_out = PlainText(GenerationErrorText)
        /\ IsSkillJson(f_out)
        /\ _ensure_kakao_format(f_out) = f_out

\* a string was given and is what the payload shows
C13_StringGiven ==
    /\ f_pc = "ensured"
    /\ f_resp.py = "str"
    /\ f_resp.s = <<"t", "i", "m", "e", "d", " ", "o", "u", "t">>
    /\ f_out = PlainText(f_resp.s)

\* the text before the earliest occurrence of any sentence terminator
FirstSentence(text) ==
    LET at == {Find(SentenceSeparators[k], text) :
                  k \in 1..Len(SentenceSeparators)} \ {0}
    IN  IF at = {} THEN text ELSE SubSeq(text, 1, Min(at) - 1)

\* C14: the one-line summary is the narrative cut at the earliest position
\* of any sentence terminator or at the budget of 80 characters, whichever
\* comes first, with "..." appended when the budget cut it; it is never
\* longer than 83 characters.
C14_CutAtEarliestTerminator ==
    f_pc = "summarised" =>
        LET sentence == FirstSentence(f_text)
        IN  /\ f_out.s = IF Len(sentence) > SummaryBudget
                         THEN SubSeq(sentence, 1, SummaryBudget)
                              \o <<".", ".", ".">>
                         ELSE sentence
            /\ Len(f_out.s) <= SummaryBudget + 3

\* the text holds the Korean keyword, or the English one in any case
HasKeyword(text, korean, english) ==
    \/ \E i \in 1..Len(text) :
           /\ i + Len(korean) - 1 <= Len(text)
           /\ SubSeq(text, i, i + Len(korean) - 1) = korean
    \/ \E i \in 1..Len(text) :
           /\ i + Len(english) - 1 <= Len(text)
           /\ Lower(SubSeq(text, i, i + Len(english) - 1)) = english

SaysBuy(text) == HasKeyword(text, <<"mae", "su">>, <<"b", "u", "y">>)
SaysHold(text) == HasKeyword(text, <<"bo", "yu">>, <<"h", "o", "l", "d">>)
SaysSell(text) == HasKeyword(text, <<"mae", "do">>, <<"s", "e", "l", "l">>)

\* C15: the opinion label goes by priority BUY > HOLD > SELL over the
\* keywords the text holds, English ones in any case; there is no label
\* when it holds none.
C15_BuyHoldSellPriority ==
    f_pc = "extracted" =>
        f_out.opinion =
            IF SaysBuy(f_text) THEN PyStr(BUY)
            ELSE IF SaysHold(f_text) THEN PyStr(HOLD)
            ELSE IF SaysSell(f_text) THEN PyStr(SELL)
            ELSE None

\* a text with a SELL and a BUY keyword was labelled BUY
C15_SellAndBuyIsBuy ==
    /\ f_pc = "extracted"
    /\ SaysSell(f_text)
    /\ SaysBuy(f_text)
    /\ f_out.opinion = PyStr(BUY)

\* the digits of a text, in order
DigitsIn(text) == SelectSeq(text, LAMBDA c : c \in Digit)

\* the first maximal run of digits and commas that holds a digit, without
\* its commas; <<>> when the text has no digit
FirstNumber(text) ==
    LET isNum(i) == text[i] \in Digit \cup {","}
        first == Min({i \in 1..Len(text) : text[i] \in Digit})
        from == Min({i \in 1..first : \A k \in i..first : isNum(k)})
        to == Min({j \in first..Len(text) :
                      j = Len(text) \/ ~isNum(j + 1)})
    IN  IF DigitsIn(text) = <<>> THEN <<>>
        ELSE DigitsIn(SubSeq(text, from, to))

\* C16: the target price is the first number of the text, its commas
\* removed, shown with thousands separators and "won"; there is none (the
\* card shows "N/A") only when the text holds no number.
C16_FirstNumberIsTarget ==
    f_pc = "extracted" =>
        f_out.target =
            IF DigitsIn(f_text) = <<>> THEN None
            ELSE PyStr(Grouped(DigitsOf(IntOf(FirstNumber(f_text))))
                       \o <<"won">>)

\* the tenths of a percentage shown as [sign]digits.digit%
TenthsShown(shown) ==
    LET digits == DigitsIn(shown)
    IN  IF shown[1] = "-" THEN -IntOf(digits) ELSE IntOf(digits)

\* shown is a sign, digits, a point, one digit and "%"
SignedOneDecimal(shown) ==
    /\ Len(shown) >= 5
    /\ shown[1] \in {"+", "-"}
    /\ IsDigit(SubSeq(shown, 2, Len(shown) - 3))
    /\ shown[Len(shown) - 2] = "."
    /\ shown[Len(shown) - 1] \in Digit
    /\ shown[Len(shown)] = "%"

\* C17: the upside is "N/A" when the current price is absent, zero or
\* negative or when no target was extracted; otherwise it is
\* (target - current) / current * 100 to the nearest tenth, with its sign.
\* 50,000 and a target of 60,000 give "+20.0%".
C17_UpsideOrNA ==
    f_pc = "upside" =>
        LET target == f_out.target
            shown == f_out.upside.s
            absent == f_price = None \/ f_price.v <= 0
        IN  /\ (absent \/ target = None) => shown = NA
            /\ (~absent /\ target # None) =>
                   LET t == IntOf(DigitsIn(target.s))
                       c == f_price.v
                   IN  /\ SignedOneDecimal(shown)
                       /\ shown[1] = "+" <=> t >= c
                       /\ 2 * Abs(TenthsShown(shown) * c - 1000 * (t - c))
                              <= c
            /\ (f_price = PyInt(50000) /\ target # None
                    /\ DigitsIn(target.s) = <<"6", "0", "0", "0", "0">>) =>
                   shown = <<"+", "2", "0", ".", "0", "%">>

\* 50,000 and a narrative of "target 60,000 won" gave "+20.0%"
C17_TwentyPercent ==
    /\ f_pc = "upside"
    /\ f_price = PyInt(50000)
    /\ f_text = <<"mok", "pyo", "ga", " ", "6", "0", ",", "0", "0", "0",
                  "won">>
    /\ f_out.target = PyStr(<<"6", "0", ",", "0", "0", "0", "won">>)
    /\ f_out.upside = PyStr(<<"+", "2", "0", ".", "0", "%">>)

(***************************************************************************)
(* Properties of the filing lookup (Spec).                                 *)
(***************************************************************************)
LookupArgs == [i \in 1..Len(CallsOf("get_financials", calls)) |->
                   CallsOf("get_financials", calls)[i].arg]

HasRows(tmp) == tmp.kind = "frame" /\ tmp.rows # <<>>

\* C19: the filing lookups are for the current year, the year before and
\* the one before that, in this order and always for the annual report and
\* the consolidated statements; a year is asked for only when every year
\* before it gave nothing or raised, the first answer with rows is the
\* filing used, at most three lookups are made, each year once, and when
\* none gives rows no filing is found.
C19_ThreeYearsNewestFirst ==
    /\ Len(LookupArgs) <= 3
    /\ \A i \in 1..Len(LookupArgs) :
           /\ LookupArgs[i].year = CurrentYear - (i - 1)
           /\ LookupArgs[i].reprt_code = "11011"
           /\ LookupArgs[i].fs_div = "CFS"
    /\ pc \in {"assemble", "returned", "done"} /\ resolution # None =>
           /\ Len(filings) = Len(LookupArgs)
           /\ \A i \in 1..(Len(filings) - 1) : ~HasRows(filings[i])
           /\ (filings # <<>> /\ Len(filings) < 3) =>
                  HasRows(filings[Len(filings)])
           /\ resolution.df # None =>
                  /\ filings # <<>>
                  /\ resolution.df = filings[Len(filings)]
           /\ (\A i \in 1..Len(filings) : ~HasRows(filings[i])) =>
                  /\ resolution.df = None
                  /\ resolution.financial_text = None

\* the third year's filing was used after one year raised and one gave
\* an empty frame
C19_ThirdYearUsed ==
    /\ pc = "done"
    /\ Len(filings) = 3
    /\ filings[1].kind = "raise"
    /\ filings[2].kind = "frame"
    /\ filings[2].rows = <<>>
    /\ HasRows(filings[3])
    /\ resolution.df = filings[3]
    /\ LookupArgs[3].year = CurrentYear - 2

(***************************************************************************)
(* Properties of the daily batch (BatchSpec).                              *)
(***************************************************************************)
Listed == {all_tickers[i] : i \in 1..Len(all_tickers)}

\* C18: a completed run has given every listed ticker to report
\* generation, and the dated payload of its day holds, for every listed
\* ticker whose generation did not fail, a report computed in that run.
C18_EveryListedTickerComputed ==
    b_pc = "finished" =>
        LET data == s3_dated[today_str].data
        IN  /\ generated = Listed
            /\ Cardinality(Listed \ DOMAIN data) <= errors
            /\ \A t \in Listed \cap DOMAIN data :
                   data[t].template.computed = b_run

\* C20: a ticker that is a key of the loaded latest cache is never given to
\* report generation, and every payload the run saves (interim latest,
\* final latest, dated) holds the cached entry of every such ticker
\* unchanged: the saved data contain the loaded cache.
C20_CachedEntriesKept ==
    /\ generated \cap DOMAIN existing_data = {}
    /\ \A i \in 1..Len(saved) :
           \A t \in DOMAIN existing_data :
               /\ t \in DOMAIN saved[i].data
               /\ saved[i].data[t] = existing_data[t]

\* a run that loaded a cache, generated reports and saved the interim
\* latest, the final latest and the dated payload
C20_ResumedRunFinished ==
    /\ b_pc = "finished"
    /\ DOMAIN existing_data # {}
    /\ generated # {}
    /\ Len(saved) = 3
    /\ s3_dated[today_str] = saved[3]

(***************************************************************************)
(* Properties of the calculator's lookups (UnitSpec).                      *)
(***************************************************************************)
\* the index of the row a quantity was read from: the first row matched by
\* the earliest synonym whose first matching row parses; 0 when there is
\* none
SourceRow(df, keys) ==
    LET first(k) == Min({r \in 1..Len(df) :
                            StrContains(df[r].account_nm, keys[k])})
        usable == {k \in 1..Len(keys) :
                      /\ MatchingRows(df, keys[k]) # <<>>
                      /\ CanFloat(df[first(k)].thstrm_amount)}
    IN  IF usable = {} THEN 0 ELSE first(Min(usable))

\* C21: whenever calculate_from_dataframe returns metrics, net income and
\* equity were read from two different line items of the filing.
C21_DistinctLineItems ==
    (u_pc = "calculated" /\ u_metrics # None) =>
        SourceRow(u_df, NET_INCOME_KEYS) # SourceRow(u_df, EQUITY_KEYS)

(***************************************************************************)
(* Properties of the opinion card of an assembled report (Spec).           *)
(***************************************************************************)
\* the items of the fifth card build_success_response builds for the report
OpinionItems ==
    build_success_response(raw.value)
        .template.outputs.items[5].itemCard.itemList.items

\* C22: for every report generate_raw_report produces, the opinion card of
\* build_success_response shows the overall opinion BUY, the target price
\* "N/A" and the upside "N/A": the opinion narrative is the same for every
\* instrument, holds the BUY keyword and holds no digit.
C22_OpinionCardIsFixed ==
    ReportProduced =>
        LET text == raw.value.report.sections.investment_opinion.s
            shown == [i \in 1..3 |-> OpinionItems[i].description]
        IN  /\ text = investment_opinion_text
            /\ SaysBuy(text)
            /\ DigitsIn(text) = <<>>
            /\ shown = <<PyStr(BUY), PyStr(NA), PyStr(NA)>>

\* a report with a current price and metrics from the filing was produced,
\* and its opinion card shows BUY without target or upside
C22_PricedReportShowsBuy ==
    /\ ReportProduced
    /\ pc = "done"
    /\ Truthy(raw.value.raw_data.basic.current_price)
    /\ raw.value.raw_data.metrics.per # None
    /\ OpinionItems[1].description = PyStr(BUY)
    /\ OpinionItems[3].description = PyStr(NA)

====
